---- MODULE Spec2Model ----
(***************************************************************************)
(* Model of the reconstruction pipeline of crossfit_programming:           *)
(* DataReprocessor (src/reprocess_data.py).                                *)
(*                                                                         *)
(* Texts are sequences of one-character strings, so that the regular       *)
(* expressions of detect_cycle_info are modelled by what they match.       *)
(* Workout indices keep Python's 0-based values; the TLA+ sequence         *)
(* `workouts` holds the workout with index i at position i + 1.            *)
(* Cycle dictionaries are Python objects shared between self.cycles and    *)
(* self.current_cycle: `heap` holds the cycle objects in creation order,   *)
(* `cycles` and `current_cycle` hold references (positions in heap).       *)
(***************************************************************************)
EXTENDS Integers, Sequences, FiniteSets, TLC

VARIABLES
    workouts,       \* self.workouts: the global workout list
    heap,           \* the cycle dictionaries allocated so far
    cycles,         \* self.cycles: list of references into heap
    current_cycle,  \* self.current_cycle: a reference into heap, or NoCycle
    current_week,   \* self.current_week: an integer, or None
    workout,        \* the loop variable of reprocess_all_data (last candidate)
    pc,             \* position in main / reprocess_all_data
    raw_pages,      \* self.raw_pages: the texts of the raw pages, in file order
    pages_done,     \* number of pages of raw_pages[::-1] already taken
    matches,        \* the candidates re.findall gave for the page (line 217)
    all_workouts,   \* the validated workouts of the page, not yet processed
    all_weeks,      \* the single-week pool (data/random_weeks.json)
    all_2week_sequences, \* the two-week pool (data/random_2weeks.json)
    first_run,      \* what an earlier run of main on the same pages produced
    scraper,        \* the PushJerkScraper object of the last scraper run
    files,          \* the JSON files of data/: workouts, cycles, raw pages
    site            \* the posts of the web site, newest first

vars == <<workouts, heap, cycles, current_cycle, current_week, workout, pc,
          raw_pages, pages_done, matches, all_workouts, all_weeks,
          all_2week_sequences, first_run, scraper, files, site>>

\* the scraper object, the data directory and the web site
web == <<scraper, files, site>>

\* the variables of the page loop and of the comparison of two runs
driver == <<raw_pages, pages_done, matches, all_workouts, first_run, web>>

\* ---------------------------------------------------------------- bounds
\* longest workout stream of the detector specification (Spec)
MaxWorkouts == 3
\* number of distinct Monday dates in the titles of Spec
MaxDate == 2
\* longest workout stream of the organizer specification (SpecOrg)
MaxOrgLen == 5
\* longest workout stream of the filter specification (SpecFilter)
MaxFilterLen == 10
\* largest number of raw pages of the page specification (SpecRun)
MaxPages == 2
\* longest stream of Monday workouts of the pattern specification (SpecDetect)
MaxDetect == 3
\* longest stream of Monday workouts of the cycle-id specification (SpecIds)
MaxIdLen == 7
\* largest number of posts of the web site (SpecScraper)
MaxPosts == 3
\* posts on one page of the web site (SpecScraper)
PageSize == 2
\* largest page number a scraper run asks for (SpecScraper)
MaxFetch == 2
\* a scraper run starts only while the stored workout list is at most this
\* long (SpecScraper)
MaxStored == 4

\* ---------------------------------------------------------------- values
\* Python's None for a nullable integer (\d+ never yields a negative number)
None == -1
\* Python's None for self.current_cycle (references start at 1)
NoCycle == 0
\* Python's None for a workout's "day"
NoDay == "none"

Range(s) == {s[i] : i \in DOMAIN s}

\* the element of a one-element set; {e(x) : x \in {v}} passes v to e as a
\* computed value
Only(S) == CHOOSE x \in S : TRUE

\* ---------------------------------------------------------------- texts
Space == {" ", "\n"}
Digit == {"0", "1", "2", "3", "4", "5", "6", "7", "8", "9"}

DigitVal(c) ==
    CASE c = "0" -> 0 [] c = "1" -> 1 [] c = "2" -> 2 [] c = "3" -> 3
      [] c = "4" -> 4 [] c = "5" -> 5 [] c = "6" -> 6 [] c = "7" -> 7
      [] c = "8" -> 8 [] c = "9" -> 9

\* str.lower() on one character
LowerChar(c) ==
    CASE c = "A" -> "a"
      [] c = "B" -> "b"
      [] c = "C" -> "c"
      [] c = "D" -> "d"
      [] c = "E" -> "e"
      [] c = "F" -> "f"
      [] c = "G" -> "g"
      [] c = "H" -> "h"
      [] c = "I" -> "i"
      [] c = "J" -> "j"
      [] c = "K" -> "k"
      [] c = "L" -> "l"
      [] c = "M" -> "m"
      [] c = "N" -> "n"
      [] c = "O" -> "o"
      [] c = "P" -> "p"
      [] c = "Q" -> "q"
      [] c = "R" -> "r"
      [] c = "S" -> "s"
      [] c = "T" -> "t"
      [] c = "U" -> "u"
      [] c = "V" -> "v"
      [] c = "W" -> "w"
      [] c = "X" -> "x"
      [] c = "Y" -> "y"
      [] c = "Z" -> "z"
      [] OTHER -> c

\* content.lower()
Lower(s) == [i \in DOMAIN s |-> LowerChar(s[i])]

\* the literal lit occurs in s at position i
Lit(s, i, lit) ==
    /\ i + Len(lit) - 1 <= Len(s)
    /\ \A k \in 1..Len(lit) : s[i + k - 1] = lit[k]

\* first position >= i of s that holds no character of class (Len(s)+1 if none):
\* the end of a greedy class* starting at i
RECURSIVE SpanEnd(_, _, _)
SpanEnd(s, i, class) ==
    IF i <= Len(s) /\ s[i] \in class THEN SpanEnd(s, i + 1, class) ELSE i

\* int() of the digits s[i..j-1]
RECURSIVE ToInt(_, _, _)
ToInt(s, i, j) ==
    IF j <= i THEN 0 ELSE 10 * ToInt(s, i, j - 1) + DigitVal(s[j - 1])

NoMatch == [ok |-> FALSE, n |-> None, m |-> None, groups |-> 0]

L_week == <<"w", "e", "e", "k">>
L_of == <<"o", "f">>

\* r"week\s+(\d+)\s+of\s+(\d+)" matched at position i
Pattern1At(s, i) ==
    LET a == i + 4
        b == SpanEnd(s, a, Space)
        c == SpanEnd(s, b, Digit)
        d == SpanEnd(s, c, Space)
        e == d + 2
        f == SpanEnd(s, e, Space)
        g == SpanEnd(s, f, Digit)
    IN  IF /\ Lit(s, i, L_week) /\ b > a /\ c > b /\ d > c
           /\ Lit(s, d, L_of) /\ f > e /\ g > f
        THEN [ok |-> TRUE, n |-> ToInt(s, b, c), m |-> ToInt(s, f, g), groups |-> 2]
        ELSE NoMatch

\* r"week\s+(\d+)\/(\d+)" matched at position i
Pattern2At(s, i) ==
    LET a == i + 4
        b == SpanEnd(s, a, Space)
        c == SpanEnd(s, b, Digit)
        d == c + 1
        e == SpanEnd(s, d, Digit)
    IN  IF /\ Lit(s, i, L_week) /\ b > a /\ c > b
           /\ Lit(s, c, <<"/">>) /\ e > d
        THEN [ok |-> TRUE, n |-> ToInt(s, b, c), m |-> ToInt(s, d, e), groups |-> 2]
        ELSE NoMatch

\* r"(\d+)\.\d\)" matched at position i: pattern 3 with any digit after the dot
Pattern3At_AnyDigit(s, i) ==
    LET c == SpanEnd(s, i, Digit)
    IN  IF /\ c > i /\ Lit(s, c, <<".">>) /\ c + 1 <= Len(s) /\ s[c + 1] \in Digit
           /\ Lit(s, c + 2, <<")">>)
        THEN [ok |-> TRUE, n |-> ToInt(s, i, c), m |-> None, groups |-> 1]
        ELSE NoMatch

\* r"(\d+)\.1\)" matched at position i
Pattern3At(s, i) ==
    LET c == SpanEnd(s, i, Digit)
    IN  IF c > i /\ Lit(s, c, <<".", "1", ")">>)
        THEN [ok |-> TRUE, n |-> ToInt(s, i, c), m |-> None, groups |-> 1]
        ELSE NoMatch

\* the lookahead body r"\s+(?:of|/)" matches at position j
Lookahead4(s, j) ==
    LET k == SpanEnd(s, j, Space)
    IN  k > j /\ (Lit(s, k, L_of) \/ Lit(s, k, <<"/">>))

\* r"week\s+(\d+)(?!\s+(?:of|/))" matched at position i: the greedy (\d+)
\* gives digits back one at a time until the negative lookahead succeeds
Pattern4At(s, i) ==
    LET a == i + 4
        b == SpanEnd(s, a, Space)
        c == SpanEnd(s, b, Digit)
        ends == {j \in (b + 1)..c : ~Lookahead4(s, j)}
        j == CHOOSE x \in ends : \A y \in ends : y <= x
    IN  IF Lit(s, i, L_week) /\ b > a /\ c > b /\ ends # {}
        THEN [ok |-> TRUE, n |-> ToInt(s, b, j), m |-> None, groups |-> 1]
        ELSE NoMatch

\* week_patterns[p] matched at position i
PatternAt(p, s, i) ==
    CASE p = 1 -> Pattern1At(s, i)
      [] p = 2 -> Pattern2At(s, i)
      [] p = 3 -> Pattern3At(s, i)
      [] p = 4 -> Pattern4At(s, i)

\* re.search(week_patterns[p], s): the match at the leftmost position
Search(p, s) ==
    LET at == {i \in 1..Len(s) : PatternAt(p, s, i).ok}
    IN  IF at = {} THEN NoMatch
        ELSE PatternAt(p, s, CHOOSE i \in at : \A k \in at : i <= k)

\* number of entries of week_patterns
NumPatterns == 4


\* ---------------------------------------------------------------- contents
W_week == <<"w", "e", "e", "k">>
W_Week == <<"W", "e", "e", "k">>
W_of == <<"o", "f">>
SP == <<" ">>
W_x == <<"x">>

\* Monday contents of Spec
C_plain == <<"r", "e", "s", "t">>
C_Week1of6 == W_Week \o SP \o <<"1">> \o SP \o W_of \o SP \o <<"6">> \o SP \o W_x
C_week2of6 == W_week \o SP \o <<"2">> \o SP \o W_of \o SP \o <<"6">>
C_week2of4 == W_week \o SP \o <<"2">> \o SP \o W_of \o SP \o <<"4">>
C_Week2sl6 == W_Week \o SP \o <<"2", "/", "6">> \o SP \o W_x
C_week1sl4 == W_week \o SP \o <<"1", "/", "4">>
C_p3_1 == <<"1", ".", "1", ")">>
C_p3_2 == <<"x", "2", ".", "1", ")">>
C_week1 == W_week \o SP \o <<"1">>
C_week3 == W_Week \o <<" ", "\n", "3">> \o SP \o W_x
\* pattern 4 matches first in the text (N = 2), pattern 1 later (N = 1)
C_p4_then_p1 == W_week \o SP \o <<"2">> \o SP \o W_x \o SP \o C_Week1of6
\* pattern 3 matches first in the text (N = 2), pattern 1 later (N = 1)
C_p3_then_p1 == C_p3_2 \o SP \o C_Week1of6
\* pattern 3 matches first in the text (N = 2), pattern 2 later (N = 1)
C_p3_then_p2 == C_p3_2 \o SP \o C_week1sl4
\* pattern 4 matches first in the text (N = 1), pattern 3 later (N = 2)
C_p4_then_p3 == C_week1 \o SP \o C_p3_2
\* pattern 2 matches first in the text (N = 2), pattern 1 later (N = 1)
C_p2_then_p1 == C_Week2sl6 \o SP \o C_Week1of6

\* Monday contents of SpecDetect: patterns 3 and 4 and their near misses
D_3dot1 == <<"a", " ", "3", ".", "1", ")">>
D_3dot2 == <<"a", " ", "3", ".", "2", ")">>
D_12dot1 == <<"1", "2", ".", "1", ")">>
D_1dot2 == <<"1", ".", "2", ")">>
D_Week3 == W_Week \o SP \o <<"3">> \o SP \o W_x
D_week12 == W_week \o SP \o <<"1", "2">>
D_week2of == W_week \o SP \o <<"2">> \o SP \o W_of \o SP \o W_x
D_week23of == W_week \o SP \o <<"2", "3">> \o SP \o W_of \o SP \o W_x
D_week2slash == W_week \o SP \o <<"2", "/">> \o W_x
D_week2_slash == W_week \o SP \o <<"2", " ", "/", "6">>
D_week23_slash == W_week \o SP \o <<"2", "3", " ", "/", "6">>

DetectContents ==
    { C_Week1of6, C_p3_1, C_week1, D_3dot1, D_3dot2, D_12dot1, D_1dot2, D_Week3,
      D_week12, D_week2of, D_week23of, D_week2slash, D_week2_slash,
      D_week23_slash }

Contents ==
    { C_plain, C_Week1of6, C_week2of6, C_week2of4, C_Week2sl6, C_week1sl4,
      C_p3_1, C_p3_2, C_week1, C_week3,
      C_p4_then_p1, C_p3_then_p1, C_p3_then_p2, C_p4_then_p3, C_p2_then_p1 }

\* ---------------------------------------------------------------- titles
\* day_order of organize_workouts_by_weeks, days of get_day_from_title
day_order == <<"mon", "tue", "wed", "thu", "fri", "sat", "sun">>

\* the weekday abbreviation as the blog prints it at the start of a title
DayText(d) ==
    CASE d = "mon" -> "Mon" [] d = "tue" -> "Tue" [] d = "wed" -> "Wed"
      [] d = "thu" -> "Thu" [] d = "fri" -> "Fri" [] d = "sat" -> "Sat"
      [] d = "sun" -> "Sun"

\* the texts d for which text.lower() starts with the day code d; the titles
\* of the model spell a weekday capitalised or in lowercase
DaySpellings(d) == {DayText(d), d}

\* the spellings of the weekdays with their characters
DayWords ==
    { <<"Mon", <<"M", "o", "n">>>>, <<"mon", <<"m", "o", "n">>>>,
      <<"Tue", <<"T", "u", "e">>>>, <<"tue", <<"t", "u", "e">>>>,
      <<"Wed", <<"W", "e", "d">>>>, <<"wed", <<"w", "e", "d">>>>,
      <<"Thu", <<"T", "h", "u">>>>, <<"thu", <<"t", "h", "u">>>>,
      <<"Fri", <<"F", "r", "i">>>>, <<"fri", <<"f", "r", "i">>>>,
      <<"Sat", <<"S", "a", "t">>>>, <<"sat", <<"s", "a", "t">>>>,
      <<"Sun", <<"S", "u", "n">>>>, <<"sun", <<"s", "u", "n">>>> }

\* the title of a workout for a title text: the pair of the weekday text it
\* starts with and the text after it ("" and the whole text when it starts
\* with no weekday)
TitleOfText(t) ==
    LET known == {p \in DayWords : Len(t) >= 3 /\ p[2] = SubSeq(t, 1, 3)}
    IN  IF known = {} THEN <<"", t>>
        ELSE <<(CHOOSE p \in known : TRUE)[1], SubSeq(t, 4, Len(t))>>

\* A title "<Weekday>, <month> <day>, <year>" is the pair of its weekday text
\* and its date. get_day_from_title: the first day of day_order that the
\* lowercased title starts with.
get_day_from_title(title) ==
    LET hit == {k \in 1..Len(day_order) : title[1] \in DaySpellings(day_order[k])}
    IN  IF hit = {} THEN NoDay
        ELSE day_order[CHOOSE k \in hit : \A j \in hit : k <= j]

\* list.index(day) of day_order, 0-based
DayIndex(d) == (CHOOSE k \in 1..Len(day_order) : day_order[k] = d) - 1

\* ---------------------------------------------------------------- pages
\* Page texts are the text of a page as soup.get_text() gives it (line 211);
\* the texts of the model hold no markup characters, so that the HTML built
\* at line 222 parses back to the h2 text and the p text it was built from.
Lowercase ==
    { "a", "b", "c", "d", "e", "f", "g", "h", "i", "j", "k", "l", "m",
      "n", "o", "p", "q", "r", "s", "t", "u", "v", "w", "x", "y", "z" }
Uppercase ==
    { "A", "B", "C", "D", "E", "F", "G", "H", "I", "J", "K", "L", "M",
      "N", "O", "P", "Q", "R", "S", "T", "U", "V", "W", "X", "Y", "Z" }

\* \w
Word == Lowercase \cup Uppercase \cup Digit \cup {"_"}

Min(S) == CHOOSE x \in S : \A y \in S : x <= y
Max(S) == CHOOSE x \in S : \A y \in S : y <= x

\* the lowercased weekday codes, as characters
DayChars ==
    { <<"m", "o", "n">>, <<"t", "u", "e">>, <<"w", "e", "d">>, <<"t", "h", "u">>,
      <<"f", "r", "i">>, <<"s", "a", "t">>, <<"s", "u", "n">> }

\* (?:Mon|Tue|Wed|Thu|Fri|Sat|Sun) at position i, ignoring case
WeekdayAt(s, i) ==
    /\ i + 2 <= Len(s)
    /\ <<LowerChar(s[i]), LowerChar(s[i + 1]), LowerChar(s[i + 2])>> \in DayChars

\* the date anchor r"(?:Mon|...|Sun),?\s+\w+\s+\d+,\s+\d{4}" at position i,
\* ignoring case: the position after the match, 0 without a match. Every
\* repetition is followed by a character outside its class, so the match at
\* a position is unique.
AnchorEnd(s, i) ==
    LET a == i + 3
        b == IF Lit(s, a, <<",">>) THEN a + 1 ELSE a
        c == SpanEnd(s, b, Space)
        d == SpanEnd(s, c, Word)
        e == SpanEnd(s, d, Space)
        f == SpanEnd(s, e, Digit)
        g == SpanEnd(s, f + 1, Space)
    IN  IF /\ WeekdayAt(s, i) /\ c > b /\ d > c /\ e > d /\ f > e
           /\ Lit(s, f, <<",">>) /\ g > f + 1
           /\ g + 3 <= Len(s) /\ \A k \in g..(g + 3) : s[k] \in Digit
        THEN g + 4
        ELSE 0

\* the positions of s at which the date anchor matches
Anchors(s) == {i \in 1..Len(s) : AnchorEnd(s, i) > 0}

\* "$" without re.MULTILINE at position e: the end of the text, or just
\* before a newline that ends the text
DollarAt(s, e) == e = Len(s) + 1 \/ (e = Len(s) /\ s[e] = "\n")

\* the end of ".*?" followed by "(?=anchor|$)" (re.DOTALL): the first position
\* from `from` on at which the lookahead succeeds; and the same for a greedy
\* ".*": the last such position
CandidateEnd_Greedy(s, anchors, from) ==
    Max({e \in from..(Len(s) + 1) : e \in anchors \/ DollarAt(s, e)})

CandidateEnd(s, anchors, from) ==
    Min({e \in from..(Len(s) + 1) : e \in anchors \/ DollarAt(s, e)})

\* re.findall(date_pattern, all_text, re.DOTALL | re.IGNORECASE), line 217,
\* from position pos on: the matches, left to right, without overlap
RECURSIVE FindAll(_, _, _)
FindAll(s, anchors, pos) ==
    LET starts == {i \in anchors : i >= pos}
    IN  IF starts = {} THEN << >>
        ELSE LET i == Min(starts)
                 e == CandidateEnd(s, anchors, AnchorEnd(s, i))
             IN  <<SubSeq(s, i, e - 1)>> \o FindAll(s, anchors, e)

\* position of the first occurrence of lit in s, 0 if there is none
Find(s, lit) ==
    LET at == {i \in 1..Len(s) : Lit(s, i, lit)}
    IN  IF at = {} THEN 0 ELSE Min(at)

\* ssplit of line 221: the text before the first " - ", else the first line
TitlePart(match) ==
    LET dash == Find(match, <<" ", "-", " ">>)
        newline == Find(match, <<"\n">>)
    IN  IF dash > 0 THEN SubSeq(match, 1, dash - 1)
        ELSE IF newline > 0 THEN SubSeq(match, 1, newline - 1)
        ELSE match

\* str.strip()
Strip(s) ==
    LET keep == {i \in DOMAIN s : s[i] \notin Space}
    IN  IF keep = {} THEN << >> ELSE SubSeq(s, Min(keep), Max(keep))

\* \b at position i of s: between s[i - 1] and s[i]
WordBoundary(s, i) ==
    ((i - 1) \in DOMAIN s /\ s[i - 1] \in Word) # (i \in DOMAIN s /\ s[i] \in Word)

\* date_pattern of line 52 at position i of the lowercased title
DatePatternAt(s, i) ==
    /\ AnchorEnd(s, i) > 0
    /\ WordBoundary(s, i)
    /\ WordBoundary(s, AnchorEnd(s, i))

T_NoTitle == <<"N", "o", " ", "t", "i", "t", "l", "e">>
T_WarmUp == <<"W", "a", "r", "m", "-", "u", "p">>

\* is_valid_workout_title(title), title a text
is_valid_workout_title(title) ==
    IF title = << >> \/ Strip(title) \in {T_NoTitle, T_WarmUp, << >>}
    THEN FALSE
    ELSE \E i \in 1..Len(title) : DatePatternAt(Lower(title), i)

Reverse(s) == [i \in 1..Len(s) |-> s[Len(s) + 1 - i]]

\* lines 221-223 and parse_workout_from_html for an accepted candidate: the
\* title is the stripped h2 text, the content the stripped text of the h2
\* and the p element
Accepted(match) == is_valid_workout_title(Strip(TitlePart(match)))

parse_workout_from_html(match) ==
    [ title |-> TitleOfText(Strip(TitlePart(match))),
      content |-> Strip(TitlePart(match) \o match) ]

\* the loop of lines 219-226 over the first n candidates, and the same loop
\* given up at the first rejected candidate
RECURSIVE ValidWorkouts_StopAtReject(_, _)
ValidWorkouts_StopAtReject(ms, n) ==
    IF n = 0 THEN << >>
    ELSE IF \E k \in 1..n : ~Accepted(ms[k])
         THEN ValidWorkouts_StopAtReject(ms, n - 1)
         ELSE Append(ValidWorkouts_StopAtReject(ms, n - 1),
                     parse_workout_from_html(ms[n]))

RECURSIVE ValidWorkouts(_, _)
ValidWorkouts(ms, n) ==
    IF n = 0 THEN << >>
    ELSE IF Accepted(ms[n])
         THEN Append(ValidWorkouts(ms, n - 1), parse_workout_from_html(ms[n]))
         ELSE ValidWorkouts(ms, n - 1)

\* ---- the page texts of the model (a page lists its newest entry first)
A_Mon1 == <<"M", "o", "n", ",", " ", "F", " ", "1", ",", " ", "2", "0", "2", "5">>
A_Tue2 == <<"T", "u", "e", ",", " ", "F", " ", "2", ",", " ", "2", "0", "2", "5">>
A_Mon8 == <<"M", "o", "n", ",", " ", "F", " ", "8", ",", " ", "2", "0", "2", "5">>
A_mon15 == <<"m", "o", "n", " ", "F", " ", "1", "5", ",", " ", "2", "0", "2", "5">>
A_mon22 == <<"m", "o", "n", " ", "F", " ", "2", "2", ",", " ", "2", "0", "2", "5">>
\* no date anchor
P_none == <<"i", "n", "t", "r", "o", "\n">>
\* text before the first anchor, two entries, a newline at the end
P_week1 ==
    <<"x", " ">> \o A_Tue2 \o <<"\n">> \o C_plain \o <<"\n">>
       \o A_Mon1 \o <<" ", "-", " ">> \o C_Week1of6 \o <<"\n">>
\* an anchor in lowercase without the comma after the weekday
P_week2 == A_mon15 \o <<"\n">> \o C_Week2sl6
\* two entries, the newer one first: the third and the second week
P_weeks == A_mon22 \o <<"\n">> \o C_week3 \o <<"\n">> \o P_week2
\* a first line that is only a part of the anchor, a year of five digits,
\* then an entry with a valid title
P_bad ==
    <<"M", "o", "n", ",", "\n", "F", " ", "1", ",", " ", "2", "0", "2", "5", " ", "a", "\n">>
       \o <<"T", "u", "e", ",", " ", "F", " ", "2", ",", " ", "2", "0", "2", "5", "5", " ", "b", "\n">>
       \o A_Mon8 \o <<"\n">> \o C_plain
\* an anchor whose first line is only a part of it
P_allbad == <<"W", "e", "d", ",", "\n", "F", " ", "3", ",", " ", "2", "0", "2", "5">>

PageTexts == {P_none, P_week1, P_week2, P_weeks, P_bad, P_allbad}

\* lines 211-229 for every page text of the model, evaluated once: the
\* candidates and the validated workouts, oldest first
PageTable ==
    [t \in PageTexts |->
        Only({ [ matches |-> ms,
                 all_workouts |-> Reverse(ValidWorkouts(ms, Len(ms))) ] :
               ms \in {FindAll(t, Anchors(t), 1)} })]

\* the contents of the workouts of the page texts
PageContents ==
    UNION {{w.content : w \in Range(PageTable[t].all_workouts)} : t \in PageTexts}

\* ---------------------------------------------------------------- detector
\* the cycle dictionary built at lines 116-122 and 130-136 (a cycle has no
\* "weeks" key until organize_workouts_by_weeks sets it: has_weeks)
NewCycle_IdIsCount(title, total_weeks) ==
    [ cycle_id    |-> Len(cycles),
      total_weeks |-> total_weeks,
      workouts    |-> << >>,
      start_date  |-> title,
      name        |-> <<"Cycle", Len(cycles)>>,
      has_weeks   |-> FALSE,
      weeks       |-> << >> ]

\* the cycle dictionary with the workouts list of the open cycle for "[]"
NewCycle_KeepsWorkouts(title, total_weeks) ==
    [ cycle_id    |-> Len(cycles) + 1,
      total_weeks |-> total_weeks,
      workouts    |-> IF current_cycle = NoCycle THEN << >>
                      ELSE heap[current_cycle].workouts,
      start_date  |-> title,
      name        |-> <<"Cycle", Len(cycles) + 1>>,
      has_weeks   |-> FALSE,
      weeks       |-> << >> ]

NewCycle(title, total_weeks) ==
    [ cycle_id    |-> Len(cycles) + 1,
      total_weeks |-> total_weeks,
      workouts    |-> << >>,
      start_date  |-> title,
      name        |-> <<"Cycle", Len(cycles) + 1>>,
      has_weeks   |-> FALSE,
      weeks       |-> << >> ]

\* the for loop over week_patterns from entry p on (lines 104-127): the
\* match of the first pattern that matches, with the number of that pattern
\* the loop without its break: the last pattern that matches decides
RECURSIVE FirstMatch_NoBreak(_, _)
FirstMatch_NoBreak(s, p) ==
    IF p > NumPatterns THEN NoMatch @@ [pattern |-> 0]
    ELSE LET later == FirstMatch_NoBreak(s, p + 1)
             mt == Search(p, s)
         IN  IF later.ok THEN later
             ELSE IF mt.ok THEN mt @@ [pattern |-> p] ELSE later

RECURSIVE FirstMatch(_, _)
FirstMatch(s, p) ==
    IF p > NumPatterns THEN NoMatch @@ [pattern |-> 0]
    ELSE LET mt == Search(p, s)
         IN  IF mt.ok THEN mt @@ [pattern |-> p] ELSE FirstMatch(s, p + 1)

\* lines 94 and 103-127 on every content of the model, evaluated once
MatchTable ==
    [c \in Contents \cup PageContents \cup DetectContents |->
        Only({FirstMatch(content_lower, 1) :
                                 content_lower \in {Lower(c)}})]

\* the outcome of the loop at lines 104-127 for a content
WeekMatch(content) == MatchTable[content]

\* state of the detector as a record, to thread it through one loop iteration
DetectorState ==
    [ heap |-> heap, cycles |-> cycles,
      current_cycle |-> current_cycle, current_week |-> current_week ]

\* the effect of opening a cycle: lines 116-123 and 130-137, and the same
\* with self.cycles.insert(0, ...) for self.cycles.append(...)
OpenCycle_Prepends(title, total_weeks, week) ==
    [ heap |-> Append(heap, NewCycle(title, total_weeks)),
      cycles |-> <<Len(heap) + 1>> \o cycles,
      current_cycle |-> Len(heap) + 1,
      current_week |-> week ]

OpenCycle(title, total_weeks, week) ==
    [ heap |-> Append(heap, NewCycle(title, total_weeks)),
      cycles |-> Append(cycles, Len(heap) + 1),
      current_cycle |-> Len(heap) + 1,
      current_week |-> week ]

\* detect_cycle_info with the declared total written to the open cycle
detect_cycle_info_SetsTotal(content, title) ==
    LET mt == WeekMatch(content)
        total_weeks == IF mt.groups >= 2 THEN mt.m ELSE None
    IN  IF mt.ok
        THEN IF mt.n = 1
             THEN OpenCycle(title, total_weeks, mt.n)
             ELSE [ DetectorState EXCEPT
                      !.heap = IF current_cycle = NoCycle \/ total_weeks = None
                               THEN @
                               ELSE [@ EXCEPT ![current_cycle].total_weeks =
                                                  total_weeks],
                      !.current_week = mt.n ]
        ELSE OpenCycle(title, None, 1)

\* detect_cycle_info with a pattern miss merged into the open cycle
detect_cycle_info_Merges(content, title) ==
    LET mt == WeekMatch(content)
        total_weeks == IF mt.groups >= 2 THEN mt.m ELSE None
    IN  IF mt.ok
        THEN IF mt.n = 1
             THEN OpenCycle(title, total_weeks, mt.n)
             ELSE [DetectorState EXCEPT !.current_week = mt.n]
        ELSE IF current_cycle = NoCycle
             THEN OpenCycle(title, None, 1)
             ELSE [DetectorState EXCEPT !.current_week = 1]

\* detect_cycle_info with line 125 inside the "if current_week == 1" block
detect_cycle_info_WeekOnlyOnOpen(content, title) ==
    LET mt == WeekMatch(content)
        total_weeks == IF mt.groups >= 2 THEN mt.m ELSE None
    IN  IF mt.ok
        THEN IF mt.n = 1
             THEN OpenCycle(title, total_weeks, mt.n)
             ELSE DetectorState
        ELSE OpenCycle(title, None, 1)

\* detect_cycle_info opening a cycle for a later week when none is open
detect_cycle_info_OpensWithoutCycle(content, title) ==
    LET mt == WeekMatch(content)
        total_weeks == IF mt.groups >= 2 THEN mt.m ELSE None
    IN  IF mt.ok
        THEN IF mt.n = 1 \/ current_cycle = NoCycle
             THEN OpenCycle(title, total_weeks, mt.n)
             ELSE [DetectorState EXCEPT !.current_week = mt.n]
        ELSE OpenCycle(title, None, 1)

\* detect_cycle_info that opens a cycle when a later week declares a total
\* other than the open cycle's (as PushJerkScraper.detect_cycle_info does)
detect_cycle_info_OpensOnNewTotal(content, title) ==
    LET mt == WeekMatch(content)
        total_weeks == IF mt.groups >= 2 THEN mt.m ELSE None
    IN  IF mt.ok
        THEN IF \/ mt.n = 1
                \/ /\ current_cycle # NoCycle
                   /\ total_weeks # None
                   /\ total_weeks # heap[current_cycle].total_weeks
             THEN OpenCycle(title, total_weeks, mt.n)
             ELSE [DetectorState EXCEPT !.current_week = mt.n]
        ELSE OpenCycle(title, None, 1)

\* detect_cycle_info(content, title): the detector state it leaves
detect_cycle_info(content, title) ==
    LET mt == WeekMatch(content)
        total_weeks == IF mt.groups >= 2 THEN mt.m ELSE None
    IN  IF mt.ok
        THEN IF mt.n = 1
             THEN OpenCycle(title, total_weeks, mt.n)
             ELSE [DetectorState EXCEPT !.current_week = mt.n]
        ELSE OpenCycle(title, None, 1)


\* ---------------------------------------------------------------- organizer
\* the accumulators of the loop at lines 148-151
OrgStart ==
    [ weeks |-> << >>, current_week_workouts |-> << >>,
      last_day_index |-> -1, seen_dates_in_cycle |-> {} ]

\* {"week_number": len(weeks) + 1, "workouts": current_week_workouts.copy()}
WeekRecord_ZeroBased(weeks, current_week_workouts) ==
    [week_number |-> Len(weeks), workouts |-> current_week_workouts]

WeekRecord(weeks, current_week_workouts) ==
    [week_number |-> Len(weeks) + 1, workouts |-> current_week_workouts]

\* OrgStep with "<" for "<=" at line 178
OrgStep_StrictDrop(acc, workout_index, ws) ==
    IF workout_index >= Len(ws) THEN acc
    ELSE
      LET w == ws[workout_index + 1]
          day == w.day
          date == w.title
      IN
        IF day \notin Range(day_order) THEN acc
        ELSE IF date \in acc.seen_dates_in_cycle THEN acc
        ELSE
          LET current_day_index == DayIndex(day)
              should_start_new_week ==
                  /\ acc.current_week_workouts # << >>
                  /\ current_day_index < acc.last_day_index
              closed ==
                  IF should_start_new_week
                  THEN Append(acc.weeks,
                              WeekRecord(acc.weeks, acc.current_week_workouts))
                  ELSE acc.weeks
              open ==
                  IF should_start_new_week THEN << >>
                  ELSE acc.current_week_workouts
          IN  [ weeks |-> closed,
                current_week_workouts |-> Append(open, workout_index),
                last_day_index |-> current_day_index,
                seen_dates_in_cycle |-> acc.seen_dates_in_cycle \cup {date} ]

\* OrgStep with the duplicate test of line 165 moved after the week-boundary
\* logic of lines 173-186
OrgStep_LateDuplicateTest(acc, workout_index, ws) ==
    IF workout_index >= Len(ws) THEN acc
    ELSE
      LET w == ws[workout_index + 1]
          day == w.day
          date == w.title
      IN
        IF day \notin Range(day_order) THEN acc
        ELSE
          LET current_day_index == DayIndex(day)
              should_start_new_week ==
                  /\ acc.current_week_workouts # << >>
                  /\ current_day_index <= acc.last_day_index
              closed ==
                  IF should_start_new_week
                  THEN Append(acc.weeks,
                              WeekRecord(acc.weeks, acc.current_week_workouts))
                  ELSE acc.weeks
              open ==
                  IF should_start_new_week THEN << >>
                  ELSE acc.current_week_workouts
          IN  IF date \in acc.seen_dates_in_cycle
              THEN [ acc EXCEPT !.weeks = closed,
                                !.current_week_workouts = open,
                                !.last_day_index =
                                    IF should_start_new_week THEN -1 ELSE @ ]
              ELSE [ weeks |-> closed,
                     current_week_workouts |-> Append(open, workout_index),
                     last_day_index |-> current_day_index,
                     seen_dates_in_cycle |-> acc.seen_dates_in_cycle \cup {date} ]

\* OrgStep with current_week_workouts.insert(0, ...) at line 188
OrgStep_Prepends(acc, workout_index, ws) ==
    IF workout_index >= Len(ws) THEN acc
    ELSE
      LET w == ws[workout_index + 1]
          day == w.day
          date == w.title
      IN
        IF day \notin Range(day_order) THEN acc
        ELSE IF date \in acc.seen_dates_in_cycle THEN acc
        ELSE
          LET current_day_index == DayIndex(day)
              should_start_new_week ==
                  /\ acc.current_week_workouts # << >>
                  /\ current_day_index <= acc.last_day_index
              closed ==
                  IF should_start_new_week
                  THEN Append(acc.weeks,
                              WeekRecord(acc.weeks, acc.current_week_workouts))
                  ELSE acc.weeks
              open ==
                  IF should_start_new_week THEN << >>
                  ELSE acc.current_week_workouts
          IN  [ weeks |-> closed,
                current_week_workouts |-> <<workout_index>> \o open,
                last_day_index |-> current_day_index,
                seen_dates_in_cycle |-> acc.seen_dates_in_cycle \cup {date} ]

\* one iteration of the loop at lines 153-189, over the workout list ws
OrgStep(acc, workout_index, ws) ==
    IF workout_index >= Len(ws) THEN acc
    ELSE
      LET w == ws[workout_index + 1]
          day == w.day
          date == w.title
      IN
        IF day \notin Range(day_order) THEN acc
        ELSE IF date \in acc.seen_dates_in_cycle THEN acc
        ELSE
          LET current_day_index == DayIndex(day)
              should_start_new_week ==
                  /\ acc.current_week_workouts # << >>
                  /\ current_day_index <= acc.last_day_index
              closed ==
                  IF should_start_new_week
                  THEN Append(acc.weeks,
                              WeekRecord(acc.weeks, acc.current_week_workouts))
                  ELSE acc.weeks
              open ==
                  IF should_start_new_week THEN << >>
                  ELSE acc.current_week_workouts
          IN  [ weeks |-> closed,
                current_week_workouts |-> Append(open, workout_index),
                last_day_index |-> current_day_index,
                seen_dates_in_cycle |-> acc.seen_dates_in_cycle \cup {date} ]

\* the loop at lines 153-189 over the first k entries of a cycle's workouts
RECURSIVE OrgLoop(_, _, _, _)
OrgLoop(start, idxs, k, ws) ==
    IF k = 0 THEN start
    ELSE Only({OrgStep(acc, idxs[k], ws) :
                 acc \in {OrgLoop(start, idxs, k - 1, ws)}})

\* OrganizeCycle that extends the weeks the cycle already has instead of
\* starting from the empty list of line 148
OrganizeCycle_Accumulates(cycle, ws) ==
    Only({ IF acc.current_week_workouts # << >>
           THEN Append(acc.weeks, WeekRecord(acc.weeks, acc.current_week_workouts))
           ELSE acc.weeks :
           acc \in {OrgLoop([OrgStart EXCEPT !.weeks = cycle.weeks],
                            cycle.workouts, Len(cycle.workouts), ws)} })

\* OrganizeCycle without lines 191-195: the week that is open when the loop
\* ends is not added
OrganizeCycle_NoFinalWeek(cycle, ws) ==
    Only({ acc.weeks :
           acc \in {OrgLoop(OrgStart, cycle.workouts, Len(cycle.workouts), ws)} })

\* lines 148-197 for one cycle: the value assigned to cycle["weeks"]
OrganizeCycle(cycle, ws) ==
    Only({ IF acc.current_week_workouts # << >>
           THEN Append(acc.weeks, WeekRecord(acc.weeks, acc.current_week_workouts))
           ELSE acc.weeks :
           acc \in {OrgLoop(OrgStart, cycle.workouts, Len(cycle.workouts), ws)} })

\* ---------------------------------------------------------------- filter
\* cycle.get("weeks", []), lines 298 and 324
WeeksOf(cycle) == IF cycle.has_weeks THEN cycle.weeks ELSE << >>

\* the test of line 324, and the same with ">= 2"
RetainCycle_AtLeastTwo(cycle) == Len(WeeksOf(cycle)) >= 2

RetainCycle(cycle) == Len(WeeksOf(cycle)) > 2

\* the list comprehension of line 324 over a list of cycle references
FilterCycles(cs) == SelectSeq(cs, LAMBDA r : RetainCycle(heap[r]))

\* all_cycles = self.cycles.copy(), line 291, and the same taken after line 324
all_cycles_Filtered == FilterCycles(cycles)

all_cycles == cycles

\* week_data of lines 303-308 for the week at position k of a cycle's weeks
WeekData(cycle, k) ==
    LET weeks == WeeksOf(cycle)
        week == weeks[k]
    IN  [ cycle_name |-> cycle.name,
          week_number |-> week.week_number,
          workouts |-> week.workouts,
          total_weeks_in_cycle |-> Len(weeks) ]

\* next_week = weeks[week_index + 1] (0-based), line 314, and the same with
\* weeks[week_index]
NextWeek_Same(weeks, week_index) == weeks[week_index + 1]

NextWeek(weeks, week_index) == weeks[week_index + 2]

\* lines 312-321 for the week at position k: the two-week records it adds
TwoWeekData(cycle, k) ==
    LET weeks == WeeksOf(cycle)
        week == weeks[k]
        week_index == week.week_number - 1
    IN  IF week_index < Len(weeks) - 1
        THEN LET next_week == NextWeek(weeks, week_index)
             IN  << [ cycle_name |-> cycle.name,
                      week_numbers |-> <<week.week_number, next_week.week_number>>,
                      weeks |-> <<week, next_week>>,
                      total_weeks_in_cycle |-> Len(weeks) ] >>
        ELSE << >>

\* the loop of lines 301-321 over the first k weeks of a cycle: what it
\* appends to all_weeks and to all_2week_sequences
RECURSIVE CycleWeeks(_, _)
CycleWeeks(cycle, k) ==
    IF k = 0 THEN << >>
    ELSE Append(CycleWeeks(cycle, k - 1), WeekData(cycle, k))

RECURSIVE CyclePairs(_, _)
CyclePairs(cycle, k) ==
    IF k = 0 THEN << >>
    ELSE CyclePairs(cycle, k - 1) \o TwoWeekData(cycle, k)

\* the loop of lines 297-321 over the first n cycles of cs
RECURSIVE PoolWeeks(_, _)
PoolWeeks(cs, n) ==
    IF n = 0 THEN << >>
    ELSE PoolWeeks(cs, n - 1)
            \o CycleWeeks(heap[cs[n]], Len(WeeksOf(heap[cs[n]])))

RECURSIVE PoolPairs(_, _)
PoolPairs(cs, n) ==
    IF n = 0 THEN << >>
    ELSE PoolPairs(cs, n - 1)
            \o CyclePairs(heap[cs[n]], Len(WeeksOf(heap[cs[n]])))

\* ---------------------------------------------------------------- scraper
\* PushJerkScraper of pushjerk_scraper.py. The state of the object is a
\* record st with the fields of PushJerkScraper; a cycle of st.cycles has,
\* besides its keys, the history field "extracted": the title of the post
\* that was being extracted when the index at the same position of
\* "workouts" was appended.

\* the posts of page page_num of the site: what get_page returns for the
\* url of lines 388-391
PagePosts(page_num) ==
    SubSeq(site, (page_num - 1) * PageSize + 1, Min({page_num * PageSize, Len(site)}))

\* get_page returns a page: always for the first page, for a later page
\* while the site has posts for it (else the request fails, lines 33-35)
PageExists(page_num) == page_num = 1 \/ (page_num - 1) * PageSize < Len(site)

\* lit in s
Contains(s, lit) == Find(s, lit) > 0

L_mon == <<"m", "o", "n">>

cycle_keywords ==
    { <<"c", "y", "c", "l", "e">>, <<"p", "r", "o", "g", "r", "a", "m">>,
      <<"p", "h", "a", "s", "e">>, <<"b", "l", "o", "c", "k">>,
      <<"w", "e", "e", "k", "s">>, <<"t", "r", "a", "i", "n", "i", "n", "g">> }

\* PushJerkScraper.start_new_cycle (start_date None is the empty text)
Scraper_start_new_cycle(st, total_weeks) ==
    [ st EXCEPT
        !.cycles = Append(@, [ cycle_id |-> Len(st.cycles) + 1,
                               total_weeks |-> total_weeks,
                               workouts |-> << >>,
                               start_date |-> << >>,
                               extracted |-> << >> ]),
        !.current_cycle = Len(st.cycles) + 1 ]

\* PushJerkScraper.detect_cycle_info(content_text, title)
Scraper_detect_cycle_info(st, content_text, title) ==
    Only({ IF match.ok
           THEN [ IF \/ match.n = 1
                     \/ /\ st.current_cycle # 0
                        /\ match.m # st.cycles[st.current_cycle].total_weeks
                  THEN Scraper_start_new_cycle(st, match.m)
                  ELSE st
                  EXCEPT !.current_week = match.n ]
           ELSE IF /\ Contains(Lower(title), L_mon)
                   /\ \E keyword \in cycle_keywords :
                          Contains(Lower(content_text), keyword)
                THEN [Scraper_start_new_cycle(st, None) EXCEPT !.current_week = 1]
                ELSE st :
           match \in {Search(1, Lower(content_text))} })

\* the text of a post element: its title and its body
PostText(post) == Strip(post.title \o <<"\n">> \o post.body)

\* extract_workout_data(post_element) for a post without links: the state
\* it leaves, the workout it builds and whether it returns the workout
extract_workout_data(st, post) ==
    Only({ Only({ Only({
        [ st |-> IF d.current_cycle = 0 THEN d
                 ELSE [ d EXCEPT
                          !.cycles[d.current_cycle].start_date =
                              IF @ = << >> /\ title # << >> THEN title ELSE @,
                          !.cycles[d.current_cycle].workouts = Append(@, Len(st.workouts)),
                          !.cycles[d.current_cycle].extracted = Append(@, title) ],
          workout |-> [ title |-> title,
                        content |-> content,
                        source_page |-> 0,
                        cycle_id |-> IF d.current_cycle # 0
                                     THEN d.cycles[d.current_cycle].cycle_id ELSE None,
                        week_number |-> d.current_week ],
          kept |-> title # << >> ] :
        d \in { IF Contains(Lower(title), L_mon)
                THEN Scraper_detect_cycle_info(st, content, title)
                ELSE st } }) :
        content \in {PostText(post)} }) :
        title \in {Strip(post.title)} })

\* extract_workout_posts(soup) over the first n posts of the page
RECURSIVE extract_workout_posts(_, _, _)
extract_workout_posts(st, posts, n) ==
    IF n = 0 THEN [st |-> st, workouts |-> << >>]
    ELSE Only({ Only({ [ st |-> x.st,
                         workouts |-> IF x.kept THEN Append(before.workouts, x.workout)
                                      ELSE before.workouts ] :
                       x \in {extract_workout_data(before.st, posts[n])} }) :
                before \in {extract_workout_posts(st, posts, n - 1)} })

\* store_page_html(soup, page_num, url)
store_page_html(st, page_num) ==
    [st EXCEPT !.raw_pages =
                  Append(@, [page_number |-> page_num, html |-> PagePosts(page_num)])]

\* workout["source_page"] = page_num for the workouts of a page
FromPage(ws, page_num) == [k \in DOMAIN ws |-> [ws[k] EXCEPT !.source_page = page_num]]

\* scrape_pages(start_page, end_page)
RECURSIVE scrape_pages(_, _, _)
scrape_pages(st, start_page, end_page) ==
    IF end_page < start_page THEN st
    ELSE Only({ IF ~PageExists(end_page) THEN before
                ELSE Only({ [x.st EXCEPT !.workouts = @ \o FromPage(x.workouts, end_page)] :
                            x \in {extract_workout_posts(
                                      store_page_html(before, end_page),
                                      PagePosts(end_page), Len(PagePosts(end_page)))} }) :
                before \in {scrape_pages(st, start_page, end_page - 1)} })

\* load_existing_data on a new object (a missing file leaves the empty
\* list); max() of no week number raises, and the handler of lines 84-86
\* leaves current_week as it is
load_existing_data(st) ==
    IF files.cycles = << >>
    THEN [ st EXCEPT !.workouts = files.workouts, !.cycles = files.cycles,
                     !.raw_pages = files.raw_pages ]
    ELSE Only({ [ st EXCEPT !.workouts = files.workouts,
                            !.cycles = files.cycles,
                            !.raw_pages = files.raw_pages,
                            !.current_cycle = Len(files.cycles),
                            !.current_week = IF numbers = {} THEN @ ELSE Max(numbers) ] :
                numbers \in {{ files.workouts[i].week_number :
                    i \in { k \in DOMAIN files.workouts :
                              /\ files.workouts[k].cycle_id
                                    = files.cycles[Len(files.cycles)].cycle_id
                              /\ files.workouts[k].week_number \notin {None, 0} } }} })

\* get_latest_workout_titles()
get_latest_workout_titles(st) ==
    { Strip(st.workouts[i].title) :
        i \in { k \in DOMAIN st.workouts :
                  st.workouts[k].source_page = 1 /\ st.workouts[k].title # << >> } }

\* the loop of update_with_new_workouts from page page_num on; acc holds the
\* object, new_workouts and new_pages
RECURSIVE UpdateLoop(_, _, _, _)
UpdateLoop(acc, existing_titles, page_num, max_pages) ==
    IF page_num > max_pages \/ ~PageExists(page_num) THEN acc
    ELSE Only({ Only({ Only({
                  IF new = << >> /\ page_num > 1 THEN next
                  ELSE UpdateLoop(next, existing_titles, page_num + 1, max_pages) :
                next \in {[ st |-> IF page_num = 1
                                   THEN [x.st EXCEPT !.raw_pages =
                                           SelectSeq(@, LAMBDA pg : pg.page_number # 1)]
                                   ELSE x.st,
                            new_workouts |-> acc.new_workouts \o FromPage(new, page_num),
                            new_pages |-> Append(acc.new_pages,
                                                 [ page_number |-> page_num,
                                                   html |-> PagePosts(page_num) ]) ]} }) :
                new \in {SelectSeq(x.workouts,
                                   LAMBDA w : Strip(w.title) \notin existing_titles)} }) :
                x \in {extract_workout_posts(acc.st, PagePosts(page_num),
                                             Len(PagePosts(page_num)))} })

\* update_with_new_workouts(max_pages)
update_with_new_workouts(st, max_pages) ==
    UpdateLoop([st |-> st, new_workouts |-> << >>, new_pages |-> << >>],
               get_latest_workout_titles(st), 1, max_pages)

\* the loop of lines 162-167 over the first n new pages
RECURSIVE MergePages(_, _, _)
MergePages(raw, new_pages, n) ==
    IF n = 0 THEN raw
    ELSE Append(SelectSeq(MergePages(raw, new_pages, n - 1),
                          LAMBDA pg : pg.page_number # new_pages[n].page_number),
                new_pages[n])

\* merge_new_data(new_workouts, new_pages)
merge_new_data(st, new_workouts, new_pages) ==
    [ st EXCEPT !.raw_pages = MergePages(@, new_pages, Len(new_pages)),
                !.workouts = new_workouts \o @ ]

\* the loop of lines 425-427 over the first n new workouts
RECURSIVE Redetect(_, _, _)
Redetect(st, new_workouts, n) ==
    IF n = 0 THEN st
    ELSE Only({ IF Contains(Lower(new_workouts[n].title), L_mon)
                THEN Scraper_detect_cycle_info(before, new_workouts[n].content,
                                               new_workouts[n].title)
                ELSE before :
                before \in {Redetect(st, new_workouts, n - 1)} })

\* update_database(max_pages) on the object st: the object it leaves, what
\* load_existing_data gave, the new workouts, and whether save_data ran
update_database(st, max_pages) ==
    Only({ Only({ IF u.new_workouts # << >>
                  THEN [ st |-> Redetect(merge_new_data(u.st, u.new_workouts, u.new_pages),
                                         u.new_workouts, Len(u.new_workouts)),
                         loaded |-> loaded, new_workouts |-> u.new_workouts,
                         saved |-> TRUE ]
                  ELSE [ st |-> u.st, loaded |-> loaded, new_workouts |-> << >>,
                         saved |-> FALSE ] :
                  u \in {update_with_new_workouts(loaded, max_pages)} }) :
           loaded \in {load_existing_data(st)} })

\* what save_data writes for the object st
save_data(st) ==
    [workouts |-> st.workouts, cycles |-> st.cycles, raw_pages |-> st.raw_pages]

\* ---------------------------------------------------------------- inputs
\* the Monday titles of Spec
MonTitles == {<<"Mon", k>> : k \in 1..MaxDate}

\* the titles of Spec that are not Monday titles
OtherTitles == {<<"Tue", 1>>, <<"Fri", 1>>}

\* the validated candidates of Spec; the content of a workout that is not a
\* Monday workout is never read, two contents stand for all
Inputs ==
    {[title |-> t, content |-> c] : t \in OtherTitles, c \in {C_plain, C_Week1of6}}
    \cup {[title |-> t, content |-> c] : t \in MonTitles, c \in Contents}

\* the validated candidates of SpecOrg
OrgInputs ==
    { [title |-> <<"Mon", 1>>, content |-> C_Week1of6],
      [title |-> <<"Mon", 2>>, content |-> C_Week2sl6],
      [title |-> <<"Mon", 2>>, content |-> C_plain],
      [title |-> <<"Tue", 1>>, content |-> C_plain],
      [title |-> <<"Wed", 1>>, content |-> C_plain],
      [title |-> <<"Wed", 2>>, content |-> C_plain],
      [title |-> <<"Fri", 1>>, content |-> C_plain] }

\* the validated candidates of SpecFilter: every workout has a date of its
\* own; a Monday opens a cycle (no pattern) or a week of the open cycle, and
\* a Tuesday may come first or follow a Monday
FilterInputs ==
    { [title |-> <<"Mon", Len(workouts) + 1>>, content |-> C_plain],
      [title |-> <<"Mon", Len(workouts) + 1>>, content |-> C_week2of6] }
    \cup { [title |-> <<"Tue", Len(workouts) + 1>>, content |-> C_plain] :
             x \in IF workouts = << >> \/ workouts[Len(workouts)].day = "mon"
                   THEN {1} ELSE {} }

\* the validated candidates of SpecDetect: Monday workouts, each with a
\* date of its own
DetectInputs ==
    {[title |-> <<"Mon", Len(workouts) + 1>>, content |-> c] : c \in DetectContents}

\* the validated candidates of SpecIds: Monday workouts, each with a date of
\* its own, that open a cycle (no pattern) or a week of the open cycle
IdInputs ==
    { [title |-> <<"Mon", Len(workouts) + 1>>, content |-> C_plain],
      [title |-> <<"Mon", Len(workouts) + 1>>, content |-> C_week2of6] }

\* the posts of SpecScraper: a Monday that declares week 1 of 6, a Tuesday,
\* a Monday of week 2 of 6, and a Monday with a cycle keyword
B_block == <<"n", "e", "w", " ", "b", "l", "o", "c", "k">>

PostPool ==
    { [title |-> A_Mon1, body |-> C_Week1of6],
      [title |-> A_Tue2, body |-> C_plain],
      [title |-> A_Mon8, body |-> C_week2of6],
      [title |-> A_mon15, body |-> B_block] }

\* the raw page lists of SpecRun: self.raw_pages as load_raw_pages reads it
RECURSIVE PageLists(_)
PageLists(n) ==
    IF n = 0 THEN {<< >>}
    ELSE PageLists(n - 1)
            \cup {Append(ps, t) : ps \in {q \in PageLists(n - 1) : Len(q) = n - 1},
                                  t \in PageTexts}

\* ---------------------------------------------------------------- actions
\* no earlier run of main
NoRun == << >>

\* PushJerkScraper.__init__ (lines 19-23): current_cycle is a position in
\* cycles, 0 for None
PushJerkScraper ==
    [ workouts |-> << >>, cycles |-> << >>, current_cycle |-> 0,
      current_week |-> None, raw_pages |-> << >> ]

\* the data directory without files (a missing file loads as nothing)
NoFiles == [workouts |-> << >>, cycles |-> << >>, raw_pages |-> << >>]

Init ==
    /\ workouts = << >>
    /\ heap = << >>
    /\ cycles = << >>
    /\ current_cycle = NoCycle
    /\ current_week = None
    /\ workout = [title |-> << >>, content |-> << >>, day |-> NoDay]
    /\ pc = "processing"
    /\ raw_pages = << >>
    /\ pages_done = 0
    /\ matches = << >>
    /\ all_workouts = << >>
    /\ all_weeks = << >>
    /\ all_2week_sequences = << >>
    /\ first_run = NoRun
    /\ scraper = PushJerkScraper
    /\ files = NoFiles
    /\ site = << >>

\* workout_index = len(self.workouts), line 235, and the same taken after
\* line 248
WorkoutIndex_AfterAppend(ws) == Len(ws) + 1

\* the index of the last workout of the list for the index of the next
WorkoutIndex_OfLast(ws) == IF ws = << >> THEN 0 ELSE Len(ws) - 1

WorkoutIndex(ws) == Len(ws)

\* the loop of lines 232-248 that runs detect_cycle_info for every workout
ProcessWorkout_DetectsEveryDay(w) ==
    /\ pc = "processing"
    /\ \E day \in {get_day_from_title(w.title)} :
       \E d \in {detect_cycle_info(w.content, w.title)} :
       LET workout_index == WorkoutIndex(workouts)
           assigned == d.current_cycle # NoCycle
       IN  /\ heap' = IF assigned
                      THEN [d.heap EXCEPT ![d.current_cycle].workouts =
                                              Append(@, workout_index)]
                      ELSE d.heap
           /\ cycles' = d.cycles
           /\ current_cycle' = d.current_cycle
           /\ current_week' = d.current_week
           /\ workouts' = Append(workouts,
                 [ title |-> w.title, day |-> day,
                   cycle_id |-> IF assigned THEN d.heap[d.current_cycle].cycle_id
                                ELSE None,
                   week_number |-> IF assigned THEN d.current_week ELSE None ])
           /\ workout' = [title |-> w.title, content |-> w.content, day |-> day]
    /\ UNCHANGED <<pc, all_weeks, all_2week_sequences>>

\* the loop of lines 232-248 with the assignment of week_number (line 245)
\* outside the "if self.current_cycle" block
ProcessWorkout_WeekWithoutCycle(w) ==
    /\ pc = "processing"
    /\ \E day \in {get_day_from_title(w.title)} :
       \E d \in {IF day = "mon" THEN detect_cycle_info(w.content, w.title)
                 ELSE DetectorState} :
       LET workout_index == WorkoutIndex(workouts)
           assigned == d.current_cycle # NoCycle
       IN  /\ heap' = IF assigned
                      THEN [d.heap EXCEPT ![d.current_cycle].workouts =
                                              Append(@, workout_index)]
                      ELSE d.heap
           /\ cycles' = d.cycles
           /\ current_cycle' = d.current_cycle
           /\ current_week' = d.current_week
           /\ workouts' = Append(workouts,
                 [ title |-> w.title, day |-> day,
                   cycle_id |-> IF assigned THEN d.heap[d.current_cycle].cycle_id
                                ELSE None,
                   week_number |-> d.current_week ])
           /\ workout' = [title |-> w.title, content |-> w.content, day |-> day]
    /\ UNCHANGED <<pc, all_weeks, all_2week_sequences>>

\* one iteration of the loop at lines 232-248 of reprocess_all_data for the
\* validated candidate w (parse_workout_from_html gives it its day)
ProcessWorkout(w) ==
    /\ pc = "processing"
    /\ \E day \in {get_day_from_title(w.title)} :
       \E d \in {IF day = "mon" THEN detect_cycle_info(w.content, w.title)
                 ELSE DetectorState} :
       LET workout_index == WorkoutIndex(workouts)
           assigned == d.current_cycle # NoCycle
       IN  /\ heap' = IF assigned
                      THEN [d.heap EXCEPT ![d.current_cycle].workouts =
                                              Append(@, workout_index)]
                      ELSE d.heap
           /\ cycles' = d.cycles
           /\ current_cycle' = d.current_cycle
           /\ current_week' = d.current_week
           /\ workouts' = Append(workouts,
                 [ title |-> w.title, day |-> day,
                   cycle_id |-> IF assigned THEN d.heap[d.current_cycle].cycle_id
                                ELSE None,
                   week_number |-> IF assigned THEN d.current_week ELSE None ])
           /\ workout' = [title |-> w.title, content |-> w.content, day |-> day]
    /\ UNCHANGED <<pc, all_weeks, all_2week_sequences>>

\* organize_workouts_by_weeks that also writes the number of the week it
\* put a workout in to the workout's week_number
organize_workouts_by_weeks_SetsWeekNumber ==
    /\ pc \in {"processing", "organized"}
    /\ heap' = [r \in DOMAIN heap |->
                  IF r \in Range(cycles) /\ heap[r].workouts # << >>
                  THEN [heap[r] EXCEPT !.weeks = OrganizeCycle(heap[r], workouts),
                                       !.has_weeks = TRUE]
                  ELSE heap[r]]
    /\ workouts' = [i \in DOMAIN workouts |->
                      LET at == {k \in 1..MaxOrgLen :
                                   \E r \in Range(cycles) :
                                      /\ k \in DOMAIN heap'[r].weeks
                                      /\ (i - 1) \in Range(heap'[r].weeks[k].workouts)}
                      IN  IF at = {} THEN workouts[i]
                          ELSE [workouts[i] EXCEPT !.week_number = CHOOSE k \in at : TRUE]]
    /\ pc' = IF pc = "processing" THEN "organized" ELSE "reorganized"
    /\ UNCHANGED <<cycles, current_cycle, current_week, workout,
                   all_weeks, all_2week_sequences>>

\* organize_workouts_by_weeks: line 255 of reprocess_all_data, and a second
\* call of the method on the unchanged data
organize_workouts_by_weeks ==
    /\ pc \in {"processing", "organized"}
    /\ heap' = [r \in DOMAIN heap |->
                  IF r \in Range(cycles) /\ heap[r].workouts # << >>
                  THEN [heap[r] EXCEPT !.weeks = OrganizeCycle(heap[r], workouts),
                                       !.has_weeks = TRUE]
                  ELSE heap[r]]
    /\ pc' = IF pc = "processing" THEN "organized" ELSE "reorganized"
    /\ UNCHANGED <<workouts, cycles, current_cycle, current_week, workout,
                   all_weeks, all_2week_sequences>>

\* filter_cycles_by_weeks: line 343 of main, after reprocess_all_data
filter_cycles_by_weeks ==
    /\ pc = "organized"
    /\ all_weeks' = PoolWeeks(all_cycles, Len(all_cycles))
    /\ all_2week_sequences' = PoolPairs(all_cycles, Len(all_cycles))
    /\ cycles' = FilterCycles(cycles)
    /\ pc' = "filtered"
    /\ UNCHANGED <<workouts, heap, current_cycle, current_week, workout>>

\* the start of an iteration of the loop at line 203, lines 204-229: the next
\* page of raw_pages[::-1] is segmented and its candidates are validated
NextPage ==
    /\ pc = "processing"
    /\ all_workouts = << >>
    /\ pages_done < Len(raw_pages)
    /\ LET page == PageTable[raw_pages[Len(raw_pages) - pages_done]]
       IN  /\ matches' = page.matches
           /\ all_workouts' = page.all_workouts
    /\ pages_done' = pages_done + 1
    /\ UNCHANGED <<workouts, heap, cycles, current_cycle, current_week, workout,
                   pc, raw_pages, all_weeks, all_2week_sequences, first_run, web>>

\* one iteration of the loop at lines 232-248 over the workouts of the page
ProcessNext ==
    /\ all_workouts # << >>
    /\ ProcessWorkout(Head(all_workouts))
    /\ all_workouts' = Tail(all_workouts)
    /\ UNCHANGED <<raw_pages, pages_done, matches, first_run, web>>

\* the fields a new DataReprocessor has (lines 29-32), and the same with the
\* cycle list held by the class (shared by all instances)
DataReprocessor_SharedCycles ==
    [ workouts |-> << >>, heap |-> heap, cycles |-> cycles,
      current_cycle |-> NoCycle, current_week |-> None ]

DataReprocessor ==
    [ workouts |-> << >>, heap |-> << >>, cycles |-> << >>,
      current_cycle |-> NoCycle, current_week |-> None ]

\* what a run of main leaves: the workout list, the cycle list with the
\* weeks, and the two pools
RunResult ==
    [ workouts |-> workouts,
      cycles |-> [k \in DOMAIN cycles |-> heap[cycles[k]]],
      all_weeks |-> all_weeks,
      all_2week_sequences |-> all_2week_sequences ]

\* main once more on the same raw pages: a new DataReprocessor (line 340)
\* that loads the pages again (line 341)
main_again ==
    /\ pc = "filtered"
    /\ first_run = NoRun
    /\ first_run' = <<RunResult>>
    /\ workouts' = DataReprocessor.workouts
    /\ heap' = DataReprocessor.heap
    /\ cycles' = DataReprocessor.cycles
    /\ current_cycle' = DataReprocessor.current_cycle
    /\ current_week' = DataReprocessor.current_week
    /\ workout' = [title |-> << >>, content |-> << >>, day |-> NoDay]
    /\ pc' = "processing"
    /\ pages_done' = 0
    /\ matches' = << >>
    /\ all_workouts' = << >>
    /\ all_weeks' = << >>
    /\ all_2week_sequences' = << >>
    /\ UNCHANGED <<raw_pages, web>>

\* the detector specification: any stream of at most MaxWorkouts candidates
\* of Inputs, then line 255
Next ==
    \/ /\ \E w \in Inputs : Len(workouts) < MaxWorkouts /\ ProcessWorkout(w)
       /\ UNCHANGED driver
    \/ /\ pc = "processing" /\ organize_workouts_by_weeks
       /\ UNCHANGED driver

Spec == Init /\ [][Next]_vars

\* the organizer specification: any stream of at most MaxOrgLen candidates
\* of OrgInputs, then line 255, then a second call of the organizer
NextOrg ==
    \/ /\ \E w \in OrgInputs : Len(workouts) < MaxOrgLen /\ ProcessWorkout(w)
       /\ UNCHANGED driver
    \/ /\ organize_workouts_by_weeks
       /\ UNCHANGED driver

SpecOrg == Init /\ [][NextOrg]_vars

\* the pattern specification: any stream of at most MaxDetect Monday
\* workouts of DetectInputs through the loop of lines 232-248
NextDetect ==
    /\ \E w \in DetectInputs : Len(workouts) < MaxDetect /\ ProcessWorkout(w)
    /\ UNCHANGED driver

SpecDetect == Init /\ [][NextDetect]_vars

\* the variables of DataReprocessor and of main
core == <<workouts, heap, cycles, current_cycle, current_week, workout, pc,
          raw_pages, pages_done, matches, all_workouts, all_weeks,
          all_2week_sequences, first_run>>

\* a post appears on the site, before the others
publish ==
    /\ Len(site) < MaxPosts
    /\ \E post \in PostPool \ Range(site) : site' = <<post>> \o site
    /\ UNCHANGED <<core, scraper, files>>

\* a run of the script with lines 500-501: a new PushJerkScraper,
\* scrape_pages(start_page, end_page), save_data
scrape_run ==
    /\ \E start_page \in 1..MaxFetch : \E end_page \in start_page..MaxFetch :
          scraper' = scrape_pages(PushJerkScraper, start_page, end_page)
    /\ files' = save_data(scraper')
    /\ UNCHANGED <<core, site>>

\* a run of the script as it stands (lines 497-502): a new PushJerkScraper
\* and update_database(max_pages)
update_run ==
    /\ Len(files.workouts) <= MaxStored
    /\ \E max_pages \in 1..MaxFetch :
       \E r \in {update_database(PushJerkScraper, max_pages)} :
          /\ scraper' = r.st
          /\ files' = IF r.saved THEN save_data(r.st) ELSE files
    /\ UNCHANGED <<core, site>>

\* the scraper specification: posts appear, the scraper runs
NextScraper ==
    \/ publish
    \/ scrape_run
    \/ update_run

SpecScraper == Init /\ [][NextScraper]_vars

\* save_reprocessed_data: line 344 of main, after filter_cycles_by_weeks
save_reprocessed_data ==
    /\ pc = "filtered"
    /\ files' = [ files EXCEPT !.workouts = workouts,
                               !.cycles = [k \in DOMAIN cycles |-> heap[cycles[k]]] ]
    /\ pc' = "saved"
    /\ UNCHANGED <<workouts, heap, cycles, current_cycle, current_week, workout,
                   raw_pages, pages_done, matches, all_workouts, all_weeks,
                   all_2week_sequences, first_run, scraper, site>>

\* a new PushJerkScraper loads the saved data
scraper_load ==
    /\ pc = "saved"
    /\ scraper = PushJerkScraper
    /\ files.cycles # << >>
    /\ scraper' = load_existing_data(PushJerkScraper)
    /\ UNCHANGED <<core, files, site>>

\* the scraper starts a cycle (start_new_cycle, called by detect_cycle_info)
scraper_start_new_cycle ==
    /\ pc = "saved"
    /\ Len(scraper.cycles) <= Len(files.cycles)
    /\ \E total_weeks \in {None, 6} :
          scraper' = Scraper_start_new_cycle(scraper, total_weeks)
    /\ UNCHANGED <<core, files, site>>

\* the cycle-id specification: a stream of at most MaxIdLen Monday workouts
\* through main up to save_reprocessed_data, then the scraper on the saved
\* data
NextIds ==
    \/ /\ \E w \in IdInputs : Len(workouts) < MaxIdLen /\ ProcessWorkout(w)
       /\ UNCHANGED driver
    \/ /\ pc = "processing" /\ organize_workouts_by_weeks
       /\ UNCHANGED driver
    \/ /\ filter_cycles_by_weeks
       /\ UNCHANGED driver
    \/ save_reprocessed_data
    \/ scraper_load
    \/ scraper_start_new_cycle

SpecIds == Init /\ [][NextIds]_vars

\* the filter specification: any stream of at most MaxFilterLen candidates of
\* FilterInputs, then line 255, then filter_cycles_by_weeks
NextFilter ==
    \/ /\ \E w \in FilterInputs : Len(workouts) < MaxFilterLen /\ ProcessWorkout(w)
       /\ UNCHANGED driver
    \/ /\ pc = "processing" /\ organize_workouts_by_weeks
       /\ UNCHANGED driver
    \/ /\ filter_cycles_by_weeks
       /\ UNCHANGED driver

SpecFilter == Init /\ [][NextFilter]_vars

\* the page specification: main on any list of at most MaxPages raw pages of
\* PageTexts, and main once more on the same pages
InitRun ==
    /\ workouts = << >>
    /\ heap = << >>
    /\ cycles = << >>
    /\ current_cycle = NoCycle
    /\ current_week = None
    /\ workout = [title |-> << >>, content |-> << >>, day |-> NoDay]
    /\ pc = "processing"
    /\ raw_pages \in PageLists(MaxPages)
    /\ pages_done = 0
    /\ matches = << >>
    /\ all_workouts = << >>
    /\ all_weeks = << >>
    /\ all_2week_sequences = << >>
    /\ first_run = NoRun
    /\ scraper = PushJerkScraper
    /\ files = NoFiles
    /\ site = << >>

NextRun ==
    \/ NextPage
    \/ ProcessNext
    \/ /\ pc = "processing" /\ pages_done = Len(raw_pages) /\ all_workouts = << >>
       /\ organize_workouts_by_weeks
       /\ UNCHANGED driver
    \/ /\ filter_cycles_by_weeks
       /\ UNCHANGED driver
    \/ main_again

SpecRun == InitRun /\ [][NextRun]_vars


\* ---------------------------------------------------------------- claims
\* a step is one iteration of the loop at lines 232-248
Processed == Len(workouts') = Len(workouts) + 1

\* a step processes a Monday workout
MondayStep == Processed /\ workout'.day = "mon"

Last(s) == s[Len(s)]

\* C1: when a Monday workout's first matching pattern yields N = 1, or no
\* pattern matches, exactly one new cycle is appended to the cycle list and
\* becomes current_cycle, with cycle_id = (cycles before the call) + 1,
\* total_weeks = the matched total (null without one), start_date = the
\* workout's title, name "Cycle <cycle_id>" and an empty workouts list (to
\* which line 243 then appends this workout's index).
C1_NewCycleOnWeekOneOrMiss ==
    [][ LET mt == WeekMatch(workout'.content)
            d == detect_cycle_info(workout'.content, workout'.title)
            c == heap'[current_cycle']
        IN  (MondayStep /\ (~mt.ok \/ mt.n = 1)) =>
              /\ cycles' = Append(cycles, current_cycle')
              /\ current_cycle' \notin DOMAIN heap
              /\ DOMAIN heap' = DOMAIN heap \cup {current_cycle'}
              /\ \A r \in DOMAIN heap : heap'[r] = heap[r]
              /\ c.cycle_id = Len(cycles) + 1
              /\ c.total_weeks = (IF mt.ok /\ mt.groups >= 2 THEN mt.m ELSE None)
              /\ c.start_date = workout'.title
              /\ c.name = <<"Cycle", c.cycle_id>>
              /\ d.heap[d.current_cycle].workouts = << >>
              /\ c.workouts = <<Len(workouts)>>
              /\ ~c.has_weeks
      ]_vars

\* C1 witness: a second cycle opened by a Monday whose pattern gives N = 1
\* and a total
C1_Witness ==
    /\ pc = "processing"
    /\ workout.day = "mon"
    /\ WeekMatch(workout.content).n = 1
    /\ WeekMatch(workout.content).groups = 2
    /\ Len(cycles) = 2
    /\ current_cycle = cycles[2]
    /\ heap[current_cycle].cycle_id = 2
    /\ heap[current_cycle].total_weeks = WeekMatch(workout.content).m
    /\ heap[current_cycle].start_date = workout.title
    /\ heap[current_cycle].workouts = <<Len(workouts) - 1>>

\* C2: when a pattern matches a Monday workout with N # 1, the cycle list and
\* current_cycle (identity and all fields, total_weeks included) are left
\* unchanged by detect_cycle_info and only current_week is set to N, whatever
\* the prior state; after it line 243 appends the workout's index to the open
\* cycle, if any.
C2_NoCycleChangeOnLaterWeek ==
    [][ LET mt == WeekMatch(workout'.content)
            d == detect_cycle_info(workout'.content, workout'.title)
        IN  (MondayStep /\ mt.ok /\ mt.n # 1) =>
              /\ d = [DetectorState EXCEPT !.current_week = mt.n]
              /\ cycles' = cycles
              /\ current_cycle' = current_cycle
              /\ current_week' = mt.n
              /\ DOMAIN heap' = DOMAIN heap
              /\ \A r \in DOMAIN heap :
                    heap'[r] = IF r = current_cycle
                               THEN [heap[r] EXCEPT !.workouts =
                                                      Append(@, Len(workouts))]
                               ELSE heap[r]
      ]_vars

\* C2 witness: a cycle with total 6 is open and a Monday "week 2 of 4" has
\* been processed into it
C2_Witness ==
    /\ pc = "processing"
    /\ workout.day = "mon"
    /\ workout.content = C_week2of4
    /\ current_cycle # NoCycle
    /\ heap[current_cycle].total_weeks = 6
    /\ Len(heap[current_cycle].workouts) >= 2
    /\ Last(heap[current_cycle].workouts) = Len(workouts) - 1
    /\ current_week = 2

\* C3: a Monday workout that matches no pattern while a cycle is open opens a
\* new cycle, which becomes current_cycle, sets current_week = 1 and leaves
\* the previously open cycle's record unchanged; the Monday workout is
\* assigned to the new cycle, not the old one.
C3_MissOpensNewCycle ==
    [][ (MondayStep /\ ~WeekMatch(workout'.content).ok /\ current_cycle # NoCycle) =>
          /\ current_cycle' # current_cycle
          /\ current_cycle' \notin Range(cycles)
          /\ cycles' = Append(cycles, current_cycle')
          /\ current_week' = 1
          /\ \A r \in DOMAIN heap : heap'[r] = heap[r]
          /\ Last(workouts').cycle_id = heap'[current_cycle'].cycle_id
          /\ Last(workouts').cycle_id # heap[current_cycle].cycle_id
          /\ Last(workouts').week_number = 1
          /\ heap'[current_cycle'].workouts = <<Len(workouts)>>
      ]_vars

\* C3 witness: a pattern-less Monday has opened a cycle after a first cycle
\* that holds workouts
C3_Witness ==
    /\ pc = "processing"
    /\ workout.day = "mon"
    /\ ~WeekMatch(workout.content).ok
    /\ Len(cycles) = 2
    /\ heap[cycles[1]].workouts # << >>
    /\ current_cycle = cycles[2]
    /\ current_week = 1
    /\ Last(workouts).cycle_id = 2


\* re.search of every pattern on every content of the model, evaluated once
SearchTable ==
    [c \in Contents \cup DetectContents |-> Only({[p \in 1..NumPatterns |-> Search(p, content_lower)] :
                                 content_lower \in {Lower(c)}})]

\* the numbers of the patterns that match somewhere in the lowercased content
Matching(c) == {p \in 1..NumPatterns : SearchTable[c][p].ok}

\* the lowest-numbered pattern that matches
Lowest(c) == CHOOSE p \in Matching(c) : \A q \in Matching(c) : p <= q

\* C4: pattern priority is fixed: the week number N and the total M used for
\* a Monday content are those of the lowest-numbered pattern that matches
\* anywhere in the lowercased content, also when a higher-numbered pattern
\* matches earlier in the text or yields another N.
C4_PatternPriority ==
    (workout.day = "mon" /\ Matching(workout.content) # {}) =>
        LET mt == SearchTable[workout.content][Lowest(workout.content)]
        IN  /\ current_week = mt.n
            /\ mt.n = 1 =>
                 /\ current_cycle # NoCycle
                 /\ heap[current_cycle].total_weeks = mt.m
                 /\ heap[current_cycle].workouts[1] = Len(workouts) - 1

\* C4 witness: pattern 4 matches first in the text with N = 2, pattern 1
\* later with N = 1 and M = 6; the Monday opened a cycle of 6 weeks
C4_Witness ==
    /\ workout.day = "mon"
    /\ workout.content = C_p4_then_p1
    /\ SearchTable[C_p4_then_p1][4].n = 2
    /\ current_week = 1
    /\ heap[current_cycle].total_weeks = 6
    /\ heap[current_cycle].workouts = <<Len(workouts) - 1>>


\* the cycles of the cycle list with a given cycle_id
CyclesWithId(id) == {r \in Range(cycles) : heap[r].cycle_id = id}

\* C5: every validated workout processed while current_cycle is set receives
\* cycle_id = current_cycle.cycle_id and week_number = current_week (as they
\* stand after the Monday detection for that workout), and its index is
\* appended to current_cycle.workouts; the index is the position the workout
\* occupies in the global list.
C5_WorkoutJoinsCurrentCycle ==
    /\ (workouts # << >> /\ current_cycle # NoCycle) =>
          /\ Last(workouts).cycle_id = heap[current_cycle].cycle_id
          /\ Last(workouts).week_number = current_week
          /\ heap[current_cycle].workouts # << >>
          /\ Last(heap[current_cycle].workouts) = Len(workouts) - 1
    /\ \A r \in Range(cycles) : \A k \in DOMAIN heap[r].workouts :
          LET i == heap[r].workouts[k]
          IN  /\ i + 1 \in DOMAIN workouts
              /\ workouts[i + 1].cycle_id = heap[r].cycle_id
    /\ \A i \in DOMAIN workouts :
          workouts[i].cycle_id # None =>
             \E r \in CyclesWithId(workouts[i].cycle_id) :
                i - 1 \in Range(heap[r].workouts)

\* C5 witness: a workout that is not a Monday workout is the third workout of
\* the open cycle, in week 2
C5_Witness ==
    /\ Len(workouts) = 3
    /\ workout.day # "mon"
    /\ current_cycle # NoCycle
    /\ heap[current_cycle].workouts = <<0, 1, 2>>
    /\ current_week = 2
    /\ workouts[3].week_number = 2
    /\ workouts[3].cycle_id = heap[current_cycle].cycle_id

\* C6: a Monday "Week 1 of 6 ..." followed later, with workouts that are not
\* Monday workouts in between, by a Monday "Week 2/6 ..." leaves both Monday
\* workouts in the same cycle, with week_number 1 and 2, and that cycle's
\* total_weeks is 6. (Under SpecOrg the title <<"Mon", 1>> comes only with
\* the content "Week 1 of 6 x".)
C6_WeekOneThenWeekTwo ==
    \A i \in DOMAIN workouts :
        LET j == Len(workouts)
        IN  ( /\ i < j
              /\ workouts[i].title = <<"Mon", 1>>
              /\ workout.day = "mon"
              /\ workout.content = C_Week2sl6
              /\ \A k \in (i + 1)..(j - 1) : workouts[k].day # "mon" ) =>
                 /\ workouts[i].cycle_id # None
                 /\ workouts[j].cycle_id = workouts[i].cycle_id
                 /\ workouts[i].week_number = 1
                 /\ workouts[j].week_number = 2
                 /\ \E r \in CyclesWithId(workouts[i].cycle_id) :
                       /\ heap[r].total_weeks = 6
                       /\ {i - 1, j - 1} \subseteq Range(heap[r].workouts)

\* C6 witness: "Week 1 of 6", two other workouts, then "Week 2/6", all in
\* cycle 1
C6_Witness ==
    /\ Len(workouts) = 4
    /\ workouts[1].title = <<"Mon", 1>>
    /\ workouts[2].day # "mon"
    /\ workouts[3].day # "mon"
    /\ workout.content = C_Week2sl6
    /\ workouts[4].day = "mon"
    /\ workouts[4].week_number = 2
    /\ workouts[4].cycle_id = workouts[1].cycle_id
    /\ heap[cycles[1]].total_weeks = 6
    /\ heap[cycles[1]].workouts = <<0, 1, 2, 3>>


\* ---- the organizer's result, described without the organizer
\* the concatenation of the workouts of a sequence of weeks
RECURSIVE Flatten(_)
Flatten(wk) ==
    IF wk = << >> THEN << >>
    ELSE Flatten(SubSeq(wk, 1, Len(wk) - 1)) \o wk[Len(wk)].workouts

\* day index (0 = mon .. 6 = sun) and title of the workout with index i
DayIdx(i) == DayIndex(workouts[i + 1].day)
TitleOf(i) == workouts[i + 1].title

\* position k of idxs holds a workout whose title no earlier position holds
FirstOfTitle(idxs, k) == \A j \in 1..(k - 1) : TitleOf(idxs[j]) # TitleOf(idxs[k])

\* the retained workouts of a cycle: its workouts without those whose title
\* was seen earlier in the cycle
RECURSIVE RetainedUpTo(_, _)
RetainedUpTo(idxs, k) ==
    IF k = 0 THEN << >>
    ELSE IF FirstOfTitle(idxs, k)
         THEN Append(RetainedUpTo(idxs, k - 1), idxs[k])
         ELSE RetainedUpTo(idxs, k - 1)

Retained(c) == RetainedUpTo(c.workouts, Len(c.workouts))

\* the positions in Flatten(wk) at which a week of wk starts
RECURSIVE WeekStarts(_)
WeekStarts(wk) ==
    IF wk = << >> THEN {}
    ELSE LET before == SubSeq(wk, 1, Len(wk) - 1)
         IN  WeekStarts(before) \cup {Len(Flatten(before)) + 1}

\* the cycles of the cycle list that the organizer has processed
Organized == {r \in Range(cycles) : heap[r].has_weeks}

\* C7: the organizer closes the partial week and starts a new one exactly
\* when the partial week is non-empty and the next retained workout's day
\* index is less than or equal to the previous retained workout's; hence day
\* indices increase strictly within every week, a repeated weekday with a
\* different title starts a new week, and the days [mon, wed, fri, mon, tue]
\* without duplicates give the two weeks [mon, wed, fri] and [mon, tue].
C7_WeekSplitOnDayDrop ==
    \A r \in Organized :
        LET c == heap[r]
            wk == c.weeks
            flat == Flatten(wk)
        IN  /\ flat = Retained(c)
            /\ \A v \in DOMAIN wk : wk[v].workouts # << >>
            /\ \A k \in 2..Len(flat) :
                  (k \in WeekStarts(wk)) <=> (DayIdx(flat[k]) <= DayIdx(flat[k - 1]))
            /\ \A v \in DOMAIN wk : \A a, b \in DOMAIN wk[v].workouts :
                  a < b => DayIdx(wk[v].workouts[a]) < DayIdx(wk[v].workouts[b])
            /\ ( /\ Len(c.workouts) = 5
                 /\ [k \in 1..5 |-> workouts[c.workouts[k] + 1].day]
                       = <<"mon", "wed", "fri", "mon", "tue">>
                 /\ Retained(c) = c.workouts ) =>
                    wk = << [week_number |-> 1, workouts |-> SubSeq(c.workouts, 1, 3)],
                            [week_number |-> 2, workouts |-> SubSeq(c.workouts, 4, 5)] >>

\* C7 witness: the organized cycle of the workouts mon, wed, fri, mon, tue
\* with five different titles
C7_Witness ==
    /\ pc = "organized"
    /\ Len(workouts) = 5
    /\ [k \in 1..5 |-> workouts[k].day] = <<"mon", "wed", "fri", "mon", "tue">>
    /\ Cardinality({workouts[k].title : k \in 1..5}) = 5
    /\ Len(cycles) = 1
    /\ heap[cycles[1]].workouts = <<0, 1, 2, 3, 4>>
    /\ Len(heap[cycles[1]].weeks) = 2

\* C8: a workout whose title was already seen earlier in the same cycle never
\* closes or starts a week, never changes last_day_index and is in no week:
\* the week boundary between two retained workouts with only duplicates
\* between them is decided by the days of these two alone, and no title
\* occurs twice across the weeks of one cycle.
C8_DuplicatesIgnored ==
    \A r \in Organized :
        LET c == heap[r]
            idxs == c.workouts
            wk == c.weeks
            flat == Flatten(wk)
            InWeek(i) == CHOOSE v \in DOMAIN wk : i \in Range(wk[v].workouts)
        IN  /\ \A a, b \in DOMAIN flat : a # b => TitleOf(flat[a]) # TitleOf(flat[b])
            /\ \A k \in DOMAIN idxs :
                  ~FirstOfTitle(idxs, k) => idxs[k] \notin Range(flat)
            /\ \A p, q \in DOMAIN idxs :
                  ( /\ p < q
                    /\ FirstOfTitle(idxs, p) /\ FirstOfTitle(idxs, q)
                    /\ \A k \in (p + 1)..(q - 1) : ~FirstOfTitle(idxs, k) ) =>
                       /\ {idxs[p], idxs[q]} \subseteq Range(flat)
                       /\ (InWeek(idxs[p]) = InWeek(idxs[q]))
                             <=> (DayIdx(idxs[q]) > DayIdx(idxs[p]))

\* C8 witness: an organized cycle in which a duplicate with a lower day
\* index lies between two retained workouts of the same week
C8_Witness ==
    /\ pc = "organized"
    /\ \E r \in Organized :
          LET idxs == heap[r].workouts
          IN  \E p \in DOMAIN idxs :
                /\ p + 2 \in DOMAIN idxs
                /\ FirstOfTitle(idxs, p) /\ FirstOfTitle(idxs, p + 2)
                /\ ~FirstOfTitle(idxs, p + 1)
                /\ DayIdx(idxs[p + 1]) < DayIdx(idxs[p])
                /\ DayIdx(idxs[p]) < DayIdx(idxs[p + 2])
                /\ \E v \in DOMAIN heap[r].weeks :
                      {idxs[p], idxs[p + 2]} \subseteq Range(heap[r].weeks[v].workouts)

\* C9: the organizer is idempotent: a second run on the unchanged workout
\* list and cycle workouts leaves every cycle's weeks as the first run set
\* them.
C9_OrganizerIdempotent ==
    [][ (pc = "organized" /\ pc' = "reorganized") =>
          /\ DOMAIN heap' = DOMAIN heap
          /\ \A r \in DOMAIN heap :
                /\ heap'[r].weeks = heap[r].weeks
                /\ heap'[r].has_weeks = heap[r].has_weeks
      ]_vars

\* C9 witness: the organizer ran twice on a cycle with two weeks and a
\* skipped duplicate
C9_Witness ==
    /\ pc = "reorganized"
    /\ \E r \in Organized :
          /\ Len(heap[r].weeks) = 2
          /\ Len(Flatten(heap[r].weeks)) < Len(heap[r].workouts)

\* C10: after the organizer the week at 0-based position i of cycle.weeks
\* has week_number i + 1, whatever week_number the detector gave the
\* workouts of that week.
C10_WeekNumberIsPosition ==
    \A r \in Organized :
        \A v \in DOMAIN heap[r].weeks : heap[r].weeks[v].week_number = v

\* C10 witness: the second week of a cycle holds a workout to which the
\* detector gave week_number 1
C10_Witness ==
    \E r \in Organized :
        /\ Len(heap[r].weeks) >= 2
        /\ heap[r].weeks[2].week_number = 2
        /\ \E i \in Range(heap[r].weeks[2].workouts) : workouts[i + 1].week_number = 1

\* ---- the filter's result, described by positions
\* a step is the call of filter_cycles_by_weeks
FilterStep == pc = "organized" /\ pc' = "filtered"

\* the number of weeks of the cycle at position k of the cycle list
WeekCount(k) == Len(WeeksOf(heap[cycles[k]]))

\* the number of weeks of the first n cycles of the cycle list
RECURSIVE WeeksBefore(_)
WeeksBefore(n) == IF n = 0 THEN 0 ELSE WeeksBefore(n - 1) + WeekCount(n)

\* the number of adjacent week pairs of the first n cycles of the cycle list
RECURSIVE PairsBefore(_)
PairsBefore(n) ==
    IF n = 0 THEN 0
    ELSE PairsBefore(n - 1) + (IF WeekCount(n) = 0 THEN 0 ELSE WeekCount(n) - 1)

\* the position in the sequence s of its element x
PosIn(s, x) == CHOOSE k \in DOMAIN s : s[k] = x

\* C11: filter_cycles_by_weeks retains in the cycle list exactly the cycles
\* whose weeks list has strictly more than 2 entries (a cycle with 0, 1 or 2
\* weeks or without a weeks field is removed), in their order and unchanged;
\* of cycles with 1, 2, 3 and 4 weeks the third and the fourth are retained.
C11_RetainsMoreThanTwoWeeks ==
    [][ FilterStep =>
          /\ \A r \in Range(cycles) :
                (r \in Range(cycles')) <=> Len(WeeksOf(heap[r])) > 2
          /\ Range(cycles') \subseteq Range(cycles)
          /\ \A i, j \in DOMAIN cycles' :
                i < j => PosIn(cycles, cycles'[i]) < PosIn(cycles, cycles'[j])
          /\ heap' = heap
          /\ ( /\ Len(cycles) = 4
               /\ [k \in 1..4 |-> WeekCount(k)] = <<1, 2, 3, 4>> ) =>
                  cycles' = <<cycles[3], cycles[4]>>
      ]_vars

\* C11 witness: cycles with 1, 2, 3 and 4 weeks were filtered and the 3-week
\* and 4-week cycles are the cycle list
C11_Witness ==
    /\ pc = "filtered"
    /\ Len(heap) = 4
    /\ [r \in 1..4 |-> Len(WeeksOf(heap[r]))] = <<1, 2, 3, 4>>
    /\ cycles = <<3, 4>>

\* C12: the single-week pool is built from the unfiltered cycle list: one
\* record per week of every cycle, the removed cycles included, in cycle
\* order then week order; its size is the sum of the week counts of all
\* cycles.
C12_WeekPoolFromAllCycles ==
    [][ FilterStep =>
          /\ Len(all_weeks') = WeeksBefore(Len(cycles))
          /\ \A k \in DOMAIN cycles :
                LET c == heap[cycles[k]]
                IN  \A v \in 1..WeekCount(k) :
                       all_weeks'[WeeksBefore(k - 1) + v] =
                          [ cycle_name |-> c.name,
                            week_number |-> v,
                            workouts |-> c.weeks[v].workouts,
                            total_weeks_in_cycle |-> WeekCount(k) ]
      ]_vars

\* C12 witness: the pool holds the weeks of a retained cycle and of a
\* removed cycle
C12_Witness ==
    /\ pc = "filtered"
    /\ cycles # << >>
    /\ \E r \in DOMAIN heap :
          /\ r \notin Range(cycles)
          /\ Len(heap[r].weeks) = 2
          /\ \E k \in DOMAIN all_weeks :
                /\ all_weeks[k].cycle_name = heap[r].name
                /\ all_weeks[k].week_number = 2
    /\ \E k \in DOMAIN all_weeks : all_weeks[k].cycle_name = heap[cycles[1]].name

\* C13: the two-week pool holds, for every cycle of the unfiltered list with
\* n weeks, exactly the n - 1 pairs (weeks[i], weeks[i + 1]), each once and
\* in order; no pair has weeks of two cycles or weeks that are not adjacent.
C13_PairPoolAdjacentWeeks ==
    [][ FilterStep =>
          /\ Len(all_2week_sequences') = PairsBefore(Len(cycles))
          /\ \A k \in DOMAIN cycles :
                LET c == heap[cycles[k]]
                IN  \A i \in 1..(WeekCount(k) - 1) :
                       all_2week_sequences'[PairsBefore(k - 1) + i] =
                          [ cycle_name |-> c.name,
                            week_numbers |-> <<i, i + 1>>,
                            weeks |-> <<c.weeks[i], c.weeks[i + 1]>>,
                            total_weeks_in_cycle |-> WeekCount(k) ]
      ]_vars

\* C13 witness: the pool holds the one pair of a removed 2-week cycle and
\* the two pairs of a 3-week cycle, a 1-week cycle gave none
C13_Witness ==
    /\ pc = "filtered"
    /\ \E a, b, c \in DOMAIN heap :
          /\ Len(heap[a].weeks) = 1
          /\ Len(heap[b].weeks) = 2
          /\ Len(heap[c].weeks) = 3
          /\ \A k \in DOMAIN all_2week_sequences :
                all_2week_sequences[k].cycle_name # heap[a].name
          /\ Cardinality({k \in DOMAIN all_2week_sequences :
                all_2week_sequences[k].cycle_name = heap[b].name}) = 1
          /\ Cardinality({k \in DOMAIN all_2week_sequences :
                all_2week_sequences[k].cycle_name = heap[c].name}) = 2

\* C15: after any prefix of reprocess_all_data every cycle's workouts
\* sequence is strictly increasing: each index appended to a cycle is larger
\* than the index appended to it before, and no index occurs twice in it.
C15_CycleWorkoutsIncreasing ==
    \A r \in DOMAIN heap :
        \A a, b \in DOMAIN heap[r].workouts :
            a < b => heap[r].workouts[a] < heap[r].workouts[b]

\* C15 witness: a cycle opened after a workout without a cycle holds the
\* two workouts that followed
C15_Witness ==
    /\ pc = "processing"
    /\ Len(cycles) = 1
    /\ workouts[1].cycle_id = None
    /\ heap[cycles[1]].workouts = <<1, 2>>

\* the cycles of the cycle list whose workouts hold the index of the
\* workout at position i of the workout list
Holders(i) == {r \in Range(cycles) : (i - 1) \in Range(heap[r].workouts)}

C17_CycleIdIsPosition ==
    pc # "filtered" =>
       /\ \A k \in DOMAIN cycles : heap[cycles[k]].cycle_id = k
       /\ {heap[r].cycle_id : r \in Range(cycles)} = 1..Len(cycles)
       /\ \A k, j \in DOMAIN cycles :
             k # j => heap[cycles[k]].cycle_id # heap[cycles[j]].cycle_id

\* C17 witness: three cycles were opened, the third is the current one
C17_Witness ==
    /\ pc = "organized"
    /\ Len(cycles) = 3
    /\ current_cycle = cycles[3]
    /\ heap[current_cycle].cycle_id = 3

\* the week wk is an uninterrupted run of the sequence s
IsRunOf(wk, s) ==
    \E a \in DOMAIN s : \E b \in a..Len(s) : wk = SubSeq(s, a, b)

\* C18 as stated: the workouts of every week produced by the organizer are
\* an uninterrupted run of consecutive elements of the cycle's workouts.
C18_WeekContiguousInCycle ==
    \A r \in Organized :
        \A v \in DOMAIN heap[r].weeks :
            IsRunOf(heap[r].weeks[v].workouts, heap[r].workouts)

\* C18 amended: the workouts of every week produced by the organizer belong
\* to the week's cycle and are an uninterrupted run of the cycle's workouts
\* without the workouts the organizer skips (a title seen earlier in the
\* cycle): every element of the cycle's workouts that lies between two
\* members of a week and is not in the week is such a skipped workout.
C18_WeekContiguousInRetained ==
    \A r \in Organized :
        \A v \in DOMAIN heap[r].weeks :
            LET wk == heap[r].weeks[v].workouts
                idxs == heap[r].workouts
            IN  /\ wk # << >>
                /\ IsRunOf(wk, Retained(heap[r]))
                /\ \A i \in Range(wk) :
                      /\ i \in Range(idxs)
                      /\ workouts[i + 1].cycle_id = heap[r].cycle_id
                /\ \A p, q, k \in DOMAIN idxs :
                      ( /\ p < k /\ k < q
                        /\ idxs[p] \in Range(wk) /\ idxs[q] \in Range(wk)
                        /\ idxs[k] \notin Range(wk) ) => ~FirstOfTitle(idxs, k)

\* C18 witness: a week of an organized cycle holds the workouts before and
\* after a skipped duplicate
C18_Witness ==
    \E r \in Organized :
        LET idxs == heap[r].workouts
        IN  \E v \in DOMAIN heap[r].weeks : \E p \in DOMAIN idxs :
              /\ p + 2 \in DOMAIN idxs
              /\ ~FirstOfTitle(idxs, p + 1)
              /\ idxs[p + 1] \notin Range(heap[r].weeks[v].workouts)
              /\ {idxs[p], idxs[p + 2]} \subseteq Range(heap[r].weeks[v].workouts)
              /\ Len(heap[r].weeks[v].workouts) >= 3

\* ---- the page loop
\* all_text of line 211 for the page taken last
all_text == raw_pages[Len(raw_pages) - pages_done + 1]

\* the elements of a set of numbers in increasing order
RECURSIVE Ascending(_)
Ascending(S) == IF S = {} THEN << >> ELSE <<Min(S)>> \o Ascending(S \ {Min(S)})

\* C19 as stated: the segmentation of a page text gives one candidate per
\* date-anchor occurrence, in page order; each candidate begins at an anchor
\* and extends to just before the next anchor or to the end of the text; a
\* page without anchors gives no candidate.
C19_CandidateToEndOfText ==
    pages_done > 0 =>
       LET at == Ascending(Anchors(all_text))
       IN  /\ Len(matches) = Len(at)
           /\ \A k \in DOMAIN at :
                 matches[k] = SubSeq(all_text, at[k],
                                     IF k < Len(at) THEN at[k + 1] - 1
                                     ELSE Len(all_text))

\* C19 amended: as stated, but the last candidate leaves out a newline that
\* is the last character of the text. Every anchor occurrence is the start
\* of exactly one candidate and lies in no other.
C19_CandidatePerAnchor ==
    pages_done > 0 =>
       LET at == Ascending(Anchors(all_text))
           last == IF all_text[Len(all_text)] = "\n" THEN Len(all_text) - 1
                   ELSE Len(all_text)
       IN  /\ Len(matches) = Len(at)
           /\ \A k \in DOMAIN at :
                 matches[k] = SubSeq(all_text, at[k],
                                     IF k < Len(at) THEN at[k + 1] - 1 ELSE last)
           /\ \A k \in DOMAIN at :
                 Cardinality({j \in DOMAIN at :
                                 at[j] <= at[k] /\ at[k] < at[j] + Len(matches[j])}) = 1

\* C19 witness: a page with text before the first anchor, two anchors and a
\* newline at the end gave two candidates
C19_Witness ==
    /\ pages_done > 0
    /\ all_text = P_week1
    /\ Len(matches) = 2
    /\ SubSeq(matches[1], 1, Len(A_Tue2)) = A_Tue2
    /\ matches[2] = A_Mon1 \o <<" ", "-", " ">> \o C_Week1of6

\* a step takes the next page: lines 204-229
PageStep == pages_done' = pages_done + 1

\* the positions of the candidates ms that the validator accepts
AcceptedAt(ms) == {k \in DOMAIN ms : is_valid_workout_title(Strip(TitlePart(ms[k])))}

\* the number of accepted candidates of the first n raw pages
RECURSIVE AcceptedIn(_)
AcceptedIn(n) ==
    IF n = 0 THEN 0
    ELSE AcceptedIn(n - 1)
            + Cardinality(AcceptedAt(FindAll(raw_pages[n], Anchors(raw_pages[n]), 1)))

\* C20: a candidate the validator rejects (an empty title, "No title",
\* "Warm-up", a title without the date shape) is dropped without an error:
\* validating a page changes neither the workout list nor the cycle list
\* nor the detector state, every accepted candidate of the page is kept
\* (oldest first) whatever was rejected before it, and when the pages are
\* done every accepted candidate of every page has been processed.
C20_RejectedCandidateDropped ==
    [][ /\ \A t \in {<< >>, <<" ">>, T_NoTitle, T_WarmUp, <<"M", "o", "n", ",">>} :
              ~is_valid_workout_title(t)
        /\ PageStep =>
              LET ok == AcceptedAt(matches')
              IN  /\ UNCHANGED <<workouts, heap, cycles, current_cycle, current_week>>
                  /\ Len(all_workouts') = Cardinality(ok)
                  /\ \A k \in ok :
                        all_workouts'[Cardinality({j \in ok : j >= k})] =
                           [ title |-> TitleOfText(Strip(TitlePart(matches'[k]))),
                             content |-> Strip(TitlePart(matches'[k]) \o matches'[k]) ]
        /\ (pc = "processing" /\ pc' = "organized") =>
              Len(workouts) = AcceptedIn(Len(raw_pages))
      ]_vars

\* C20 witness: after a page whose only candidate was rejected, the third
\* candidate of the next page, which follows two rejected ones, was
\* processed and opened the first cycle
C20_Witness ==
    /\ pc = "organized"
    /\ raw_pages = <<P_bad, P_allbad>>
    /\ Len(matches) = 3
    /\ Len(workouts) = 1
    /\ workouts[1].title = TitleOfText(A_Mon8)
    /\ Len(cycles) = 1

C21_NoCycleYet ==
    [][ Processed =>
          LET i == Len(workouts')
              mt == WeekMatch(workout'.content)
          IN  /\ (cycles = << >> /\ (workout'.day # "mon" \/ (mt.ok /\ mt.n # 1)))
                    => (cycles' = << >> /\ current_cycle' = NoCycle)
              /\ cycles' = << >> =>
                    /\ workouts' = Append(workouts, workouts'[i])
                    /\ workouts'[i].cycle_id = None
                    /\ workouts'[i].week_number = None
                    /\ heap' = << >>
              /\ \A j \in DOMAIN workouts' :
                    workouts'[j].cycle_id = None =>
                       \A r \in DOMAIN heap' : (j - 1) \notin Range(heap'[r].workouts)
      ]_vars

\* C21 witness: a Monday of a later week, then a non-Monday workout, both
\* processed without a cycle
C21_Witness ==
    /\ Len(workouts) = 2
    /\ workouts[1].day = "mon"
    /\ workouts[2].day \notin {"mon", NoDay}
    /\ current_week \notin {None, 1}
    /\ cycles = << >>
    /\ workouts[1].cycle_id = None /\ workouts[2].week_number = None

\* a step is a call of organize_workouts_by_weeks
OrganizeStep == pc' \in {"organized", "reorganized"} /\ pc' # pc

\* C23: organize_workouts_by_weeks changes no workout (so every week_number
\* stays the detector's guess), not the cycle list nor the detector state,
\* and of a cycle nothing but its weeks: workouts, cycle_id, total_weeks,
\* start_date and name are as before.
C23_OrganizerWritesWeeksOnly ==
    [][ OrganizeStep =>
          /\ workouts' = workouts
          /\ cycles' = cycles
          /\ current_cycle' = current_cycle /\ current_week' = current_week
          /\ DOMAIN heap' = DOMAIN heap
          /\ \A r \in DOMAIN heap :
                /\ heap'[r].cycle_id = heap[r].cycle_id
                /\ heap'[r].total_weeks = heap[r].total_weeks
                /\ heap'[r].workouts = heap[r].workouts
                /\ heap'[r].start_date = heap[r].start_date
                /\ heap'[r].name = heap[r].name
      ]_vars

\* C23 witness: the organizer put a workout in the second week of its cycle
\* and the workout still has the detector's week_number 1
C23_Witness ==
    /\ pc = "organized"
    /\ \E r \in Range(cycles) :
          /\ Len(heap[r].weeks) >= 2
          /\ \E i \in Range(heap[r].weeks[2].workouts) :
                workouts[i + 1].week_number = 1

\* C24: every index in a cycle's workouts list and in a week's workouts list
\* is at least 0 and less than the length of the workout list, at every
\* point of reprocess_all_data and after it, so the test of line 154 is
\* false for every index the organizer meets.
C24_IndicesInRange ==
    \A r \in DOMAIN heap :
        /\ \A i \in Range(heap[r].workouts) : i >= 0 /\ i < Len(workouts)
        /\ \A k \in DOMAIN heap[r].weeks :
              \A i \in Range(heap[r].weeks[k].workouts) : i >= 0 /\ i < Len(workouts)

\* C24 witness: reprocess_all_data is done and the weeks of the cycles hold
\* the first and the last index of a workout list of full length
C24_Witness ==
    /\ pc = "organized"
    /\ Len(workouts) = MaxOrgLen
    /\ \E r \in Range(cycles) : 0 \in Range(heap[r].weeks[1].workouts)
    /\ \E r \in Range(cycles) :
          (Len(workouts) - 1) \in Range(Last(heap[r].weeks).workouts)

\* ---- patterns 3 and 4
\* the positions of the dots of s that follow a digit and are followed by a
\* digit of ds and a closing parenthesis
DotDigitParen(s, ds) ==
    {k \in 2..(Len(s) - 2) :
        s[k - 1] \in Digit /\ s[k] = "." /\ s[k + 1] \in ds /\ s[k + 2] = ")"}

\* the start of the run of digits that ends just before position k
RECURSIVE RunStart(_, _)
RunStart(s, k) == IF k > 1 /\ s[k - 1] \in Digit THEN RunStart(s, k - 1) ELSE k

\* the integer written just before the first dot of DotDigitParen(s, ds)
DotNumber(s, ds) ==
    LET k == Min(DotDigitParen(s, ds)) IN ToInt(s, RunStart(s, k), k)

\* the Monday step opened a cycle without a declared total
OpenedCycle ==
    /\ Len(cycles') = Len(cycles) + 1
    /\ current_cycle' = Last(cycles')
    /\ heap'[current_cycle'].total_weeks = None

\* the Monday step opened no cycle
OpenedNone == cycles' = cycles /\ current_cycle' = current_cycle /\ Len(heap') = Len(heap)

\* C25 as stated: a Monday content that matches neither pattern 1 nor
\* pattern 2 and contains an integer N immediately followed by a dot, any
\* digit and a closing parenthesis sets current_week = N without a total and
\* opens a cycle only when N = 1.
C25_Pattern3AnyDigit ==
    [][ MondayStep =>
          LET c == workout'.content
              s == Lower(c)
          IN  (/\ ~SearchTable[c][1].ok /\ ~SearchTable[c][2].ok
               /\ DotDigitParen(s, Digit) # {}) =>
                 /\ current_week' = DotNumber(s, Digit)
                 /\ IF DotNumber(s, Digit) = 1 THEN OpenedCycle ELSE OpenedNone
      ]_vars

\* C25 amended: the digit after the dot is 1. A Monday content that matches
\* neither pattern 1 nor pattern 2 and contains an integer N immediately
\* followed by ".1)" sets current_week = N (the first such N of the content)
\* without a total and opens a cycle only when N = 1; an integer followed by
\* a dot, another digit and a closing parenthesis does not match pattern 3,
\* so without a match of pattern 4 the Monday is a pattern miss.
C25_Pattern3DotOne ==
    [][ MondayStep =>
          LET c == workout'.content
              s == Lower(c)
          IN  (~SearchTable[c][1].ok /\ ~SearchTable[c][2].ok) =>
                 /\ DotDigitParen(s, {"1"}) # {} =>
                       /\ current_week' = DotNumber(s, {"1"})
                       /\ IF DotNumber(s, {"1"}) = 1 THEN OpenedCycle ELSE OpenedNone
                 /\ (DotDigitParen(s, {"1"}) = {} /\ ~SearchTable[c][4].ok) =>
                       (current_week' = 1 /\ OpenedCycle)
      ]_vars

\* C25 witness: in an open cycle a Monday with "3.1)" set week 3 and opened
\* no cycle, and the next Monday with "3.2)" opened the second cycle
C25_Witness ==
    /\ Len(workouts) = 3
    /\ workout.content = D_3dot2
    /\ workouts[2].week_number = 3 /\ workouts[2].cycle_id = 1
    /\ workouts[3].week_number = 1 /\ workouts[3].cycle_id = 2

\* "week", white space and a run of digits start at position i of s
WeekNumberAt(s, i) ==
    /\ Lit(s, i, L_week)
    /\ SpanEnd(s, i + 4, Space) > i + 4
    /\ SpanEnd(s, SpanEnd(s, i + 4, Space), Digit) > SpanEnd(s, i + 4, Space)

\* the position after the run of digits of the "week <N>" at position i
WeekNumberEnd(s, i) == SpanEnd(s, SpanEnd(s, i + 4, Space), Digit)

\* the complete integer N of the "week <N>" at position i
WeekNumber(s, i) == ToInt(s, SpanEnd(s, i + 4, Space), WeekNumberEnd(s, i))

\* C26: for a Monday content that patterns 1-3 do not match, pattern 4 takes
\* the first "week <N>" whose complete integer N is not followed by white
\* space and "of" or "/": current_week becomes that complete N (a cycle is
\* opened only for N = 1); when every "week <N>" of the content is followed
\* by "of" or "/", pattern 4 does not match and the Monday is a pattern miss
\* (a new cycle, current_week 1).
C26_Pattern4FullInteger ==
    [][ MondayStep =>
          LET c == workout'.content
              s == Lower(c)
              occ == {i \in 1..Len(s) : WeekNumberAt(s, i)}
              free == {i \in occ : ~Lookahead4(s, WeekNumberEnd(s, i))}
          IN  (\A p \in 1..3 : ~SearchTable[c][p].ok) =>
                 /\ free # {} =>
                       /\ current_week' = WeekNumber(s, Min(free))
                       /\ IF WeekNumber(s, Min(free)) = 1 THEN OpenedCycle
                          ELSE OpenedNone
                 /\ (occ # {} /\ free = {}) => (current_week' = 1 /\ OpenedCycle)
      ]_vars

\* ---- the scraper
\* the cycle_id values of a list of cycle dictionaries are pairwise distinct
DistinctIds(cs) ==
    \A i \in DOMAIN cs : \A j \in DOMAIN cs : i # j => cs[i].cycle_id # cs[j].cycle_id

\* C29: after any sequence of reprocess_all_data, filter_cycles_by_weeks,
\* save, load_existing_data and start_new_cycle, no two cycles of a cycle
\* list (of the reprocessor, of the saved file, of the scraper) have the
\* same cycle_id.
C29_CycleIdsDistinct ==
    /\ DistinctIds([k \in DOMAIN cycles |-> heap[cycles[k]]])
    /\ DistinctIds(files.cycles)
    /\ DistinctIds(scraper.cycles)

\* no title occurs twice in a list of workouts
NoTitleTwice(ws) ==
    \A i \in DOMAIN ws : \A j \in DOMAIN ws : i # j => ws[i].title # ws[j].title

\* C28: update_database adds new workouts only: when no title occurred twice
\* in the stored workout list, none occurs twice after the update.
C28_UpdateAddsNewOnly ==
    [][ (NoTitleTwice(files.workouts) /\ files' # files) => NoTitleTwice(files'.workouts) ]_vars

\* the k-th page reprocess_all_data takes from a raw page list: line 203
\* goes through raw[::-1]
PageTaken(raw, k) == raw[Len(raw) - k + 1]

\* C22: for every raw page list the scraper saves (scrape_pages over a page
\* range, then any number of update_database merges), reprocess_all_data
\* takes a page with a larger page_number before every page with a smaller
\* one. (The order within a page, the reverse of the segmenter's, is part
\* of C20's formula.)
C22_OldestPageFirst ==
    \A j \in DOMAIN files.raw_pages : \A k \in DOMAIN files.raw_pages :
        j < k => PageTaken(files.raw_pages, j).page_number
                    > PageTaken(files.raw_pages, k).page_number

\* C27: in PushJerkScraper, after any sequence of scraper runs, every index
\* i in a cycle's workouts list is less than the length of the workout list
\* and workouts[i] is the workout that was being extracted when i was
\* appended.
C27_IndexDenotesExtracted ==
    \A c \in DOMAIN scraper.cycles :
        \A k \in DOMAIN scraper.cycles[c].workouts :
            LET i == scraper.cycles[c].workouts[k]
            IN  /\ i < Len(scraper.workouts)
                /\ scraper.workouts[i + 1].title = scraper.cycles[c].extracted[k]

\* C30: a run of update_database creates at most one cycle for each new
\* Monday workout it adds, and when every fetched post is skipped as
\* existing it leaves the cycle list, current_cycle and current_week as
\* load_existing_data gave them.
C30_DetectionOncePerNewMonday ==
    [][ \A max_pages \in 1..MaxFetch :
          \A r \in {update_database(PushJerkScraper, max_pages)} :
             (/\ Len(files.workouts) <= MaxStored
              /\ scraper' = r.st
              /\ files' = IF r.saved THEN save_data(r.st) ELSE files) =>
                /\ Len(r.st.cycles) - Len(r.loaded.cycles) <=
                      Cardinality({k \in DOMAIN r.new_workouts :
                                     Contains(Lower(r.new_workouts[k].title), L_mon)})
                /\ r.new_workouts = << >> =>
                      /\ r.st.cycles = r.loaded.cycles
                      /\ r.st.current_cycle = r.loaded.current_cycle
                      /\ r.st.current_week = r.loaded.current_week
      ]_vars

\* the workouts lists of the first n cycles of the cycle list, one after
\* the other
RECURSIVE CycleIndices(_)
CycleIndices(n) ==
    IF n = 0 THEN << >>
    ELSE CycleIndices(n - 1) \o heap[cycles[n]].workouts

\* the positions of the workouts that carry a cycle_id
InCycle == {i \in DOMAIN workouts : workouts[i].cycle_id # None}

\* C31: after any prefix of reprocess_all_data the cycles partition the
\* tail of the workout list: no cycle's workouts list is empty, each is a
\* run of consecutive integers, the lists of consecutive cycles abut, and
\* their concatenation in cycle order is the range from the index of the
\* first cycle-opening workout to len(workouts) - 1.
C31_CyclesPartitionTail ==
    pc \in {"processing", "organized"} =>
       /\ \A k \in DOMAIN cycles :
             /\ heap[cycles[k]].workouts # << >>
             /\ \A a \in DOMAIN heap[cycles[k]].workouts :
                   a > 1 => heap[cycles[k]].workouts[a]
                               = heap[cycles[k]].workouts[a - 1] + 1
             /\ k > 1 => heap[cycles[k]].workouts[1]
                            = Last(heap[cycles[k - 1]].workouts) + 1
       /\ IF cycles = << >> THEN InCycle = {}
          ELSE LET first == heap[cycles[1]].workouts[1]
                   all == CycleIndices(Len(cycles))
               IN  /\ first + 1 = Min(InCycle)
                   /\ workouts[first + 1].day = "mon"
                   /\ Len(all) = Len(workouts) - first
                   /\ \A j \in DOMAIN all : all[j] = first + j - 1

\* C31 witness: a workout without a cycle, then three cycles of two, one and
\* three workouts that share the rest of the list
C31_Witness ==
    /\ pc = "processing"
    /\ Len(cycles) = 3
    /\ workouts[1].cycle_id = None
    /\ heap[cycles[1]].workouts = <<1, 2>>
    /\ heap[cycles[2]].workouts = <<3>>
    /\ heap[cycles[3]].workouts = <<4, 5, 6>>
    /\ Len(workouts) = 7

\* C32: after any prefix of reprocess_all_data, at workout granularity,
\* every cycle of the cycle list has a workouts list that is not empty, its
\* first element is the index of a workout with day "mon" whose title is
\* the cycle's start_date; a step that processes a workout that is not a
\* Monday workout creates no cycle.
C32_CycleOpensOnMonday ==
    [][ /\ \A k \in DOMAIN cycles' :
              LET cycle == heap'[cycles'[k]]
              IN  /\ cycle.workouts # << >>
                  /\ cycle.workouts[1] < Len(workouts')
                  /\ workouts'[cycle.workouts[1] + 1].day = "mon"
                  /\ workouts'[cycle.workouts[1] + 1].title = cycle.start_date
        /\ (Processed /\ workout'.day # "mon") =>
              /\ Len(cycles') = Len(cycles)
              /\ Len(heap') = Len(heap)
      ]_vars

\* C32 witness: two cycles, the second opened by the third workout after a
\* workout that is not a Monday workout
C32_Witness ==
    /\ pc = "processing"
    /\ Len(workouts) = 3
    /\ Len(cycles) = 2
    /\ workouts[2].day # "mon"
    /\ heap[cycles[2]].workouts = <<2>>
    /\ heap[cycles[2]].start_date = workouts[3].title

\* C35: in reprocess_all_data a workout whose day is not "mon" never
\* changes the detector state: current_cycle, current_week and the length
\* of the cycle list are after it what they were before it; so every
\* workout carries the cycle_id and the week_number of the last Monday
\* workout before it.
C35_OnlyMondayChangesDetector ==
    [][ /\ (Processed /\ workout'.day # "mon") =>
              /\ current_cycle' = current_cycle
              /\ current_week' = current_week
              /\ Len(cycles') = Len(cycles)
              /\ cycles' = cycles
        /\ \A j \in DOMAIN workouts' :
              LET i == Max({0} \cup {k \in 1..j : workouts'[k].day = "mon"})
              IN  IF i = 0
                  THEN /\ workouts'[j].cycle_id = None
                       /\ workouts'[j].week_number = None
                  ELSE /\ workouts'[j].cycle_id = workouts'[i].cycle_id
                       /\ workouts'[j].week_number = workouts'[i].week_number
      ]_vars

\* C35 witness: a Friday workout after the Monday of week 2 carries week 2
\* of cycle 1, as the Tuesday and Wednesday workouts carry week 1 of it
C35_Witness ==
    /\ pc = "processing"
    /\ Len(workouts) = 5
    /\ workouts[1].day = "mon" /\ workouts[1].week_number = 1
    /\ workouts[2].day = "tue" /\ workouts[2].week_number = 1
    /\ workouts[3].day = "wed" /\ workouts[3].week_number = 1
    /\ workouts[4].day = "mon" /\ workouts[4].week_number = 2
    /\ workouts[5].day = "fri" /\ workouts[5].week_number = 2
    /\ workouts[5].cycle_id = 1
    /\ current_week = 2

\* C34: a cycle's total_weeks is fixed at creation: no step changes the
\* total_weeks of a cycle that exists, and a Monday of the open cycle whose
\* first matching pattern gives a week N # 1 and a total M other than the
\* cycle's total_weeks (null included) leaves the cycle list and
\* current_cycle as they were.
C34_TotalWeeksFixed ==
    [][ /\ \A r \in DOMAIN heap :
              /\ r \in DOMAIN heap'
              /\ heap'[r].total_weeks = heap[r].total_weeks
        /\ (/\ MondayStep
            /\ current_cycle # NoCycle
            /\ WeekMatch(workout'.content).ok
            /\ WeekMatch(workout'.content).n # 1
            /\ WeekMatch(workout'.content).groups >= 2
            /\ WeekMatch(workout'.content).m # heap[current_cycle].total_weeks) =>
              /\ cycles' = cycles
              /\ current_cycle' = current_cycle
              /\ current_week' = WeekMatch(workout'.content).n
      ]_vars

\* C34 witness: the second Monday of a cycle declared with 6 weeks says
\* "week 2 of 4"; the cycle is still the only one and still has 6 weeks
C34_Witness ==
    /\ Len(workouts) = 2
    /\ workout.day = "mon"
    /\ workout.content = C_week2of4
    /\ Len(cycles) = 1
    /\ heap[cycles[1]].total_weeks = 6
    /\ heap[cycles[1]].workouts = <<0, 1>>
    /\ current_week = 2

\* C34 witness without a total: the second Monday of a cycle opened by a
\* pattern miss says "week 2 of 6"; total_weeks stays null
C34_WitnessNull ==
    /\ Len(workouts) = 2
    /\ workout.content = C_week2of6
    /\ Len(cycles) = 1
    /\ heap[cycles[1]].total_weeks = None
    /\ heap[cycles[1]].workouts = <<0, 1>>

\* C36: in every reachable state of DataReprocessor, current_cycle set
\* implies that current_week is an integer (not null), and for every workout
\* of the list cycle_id is set if and only if week_number is set.
C36_WeekSetWithCycle ==
    /\ current_cycle # NoCycle => (current_week # None /\ current_week \in Nat)
    /\ \A i \in DOMAIN workouts :
          /\ workouts[i].cycle_id # None <=> workouts[i].week_number # None
          /\ workouts[i].cycle_id # None => workouts[i].week_number \in Nat

\* C36 witness: the first Monday said "week 2 of 6": current_week is 2 with
\* no cycle open and the workout has neither cycle_id nor week_number; the
\* next Monday opened cycle 1 and carries both
C36_Witness ==
    /\ Len(workouts) = 2
    /\ workouts[1].day = "mon"
    /\ workouts[1].cycle_id = None
    /\ workouts[1].week_number = None
    /\ workouts[2].cycle_id = 1
    /\ workouts[2].week_number = 1
    /\ current_cycle # NoCycle

\* C36, the converse that need not hold: current_week is set while
\* current_cycle is not
C36_WeekWithoutCycle ==
    /\ current_cycle = NoCycle
    /\ current_week = 2
    /\ Len(workouts) = 1

\* a is a subsequence of b
RECURSIVE IsSubseq(_, _)
IsSubseq(a, b) ==
    IF a = << >> THEN TRUE
    ELSE IF b = << >> THEN FALSE
    ELSE IF Head(a) = Head(b) THEN IsSubseq(Tail(a), Tail(b))
    ELSE IsSubseq(a, Tail(b))

\* C33: after reprocess_all_data completes, every cycle has a weeks list
\* with at least one week, every week holds at least one workout, the first
\* workout of week 1 is the cycle's opening Monday workout, and the weeks'
\* workouts, one week after the other, are a subsequence of the cycle's
\* workouts in which no index occurs twice.
C33_WeeksCoverCycle ==
    pc \in {"organized", "reorganized"} =>
       \A k \in DOMAIN cycles :
          LET cycle == heap[cycles[k]]
              flat == Flatten(cycle.weeks)
          IN  /\ cycle.has_weeks
              /\ Len(cycle.weeks) >= 1
              /\ \A n \in DOMAIN cycle.weeks : cycle.weeks[n].workouts # << >>
              /\ cycle.weeks[1].workouts[1] = cycle.workouts[1]
              /\ workouts[cycle.weeks[1].workouts[1] + 1].day = "mon"
              /\ workouts[cycle.weeks[1].workouts[1] + 1].title = cycle.start_date
              /\ IsSubseq(flat, cycle.workouts)
              /\ \A a, b \in DOMAIN flat : a # b => flat[a] # flat[b]

\* C33 witness: a cycle of five workouts, one of them a repeated date, has
\* two weeks that hold four of the five indices
C33_Witness ==
    /\ pc = "organized"
    /\ Len(cycles) = 1
    /\ Len(heap[cycles[1]].workouts) = 5
    /\ Len(heap[cycles[1]].weeks) = 2
    /\ Len(Flatten(heap[cycles[1]].weeks)) = 4

\* C37: referential integrity of what main saves (reprocess_all_data,
\* filter_cycles_by_weeks, save_reprocessed_data): every workout of the
\* saved workout list whose cycle_id is set refers to a cycle of the saved
\* cycle list: some saved cycle has that cycle_id and lists the workout's
\* index.
C37_SavedWorkoutsReferToSavedCycles ==
    \A i \in DOMAIN files.workouts :
        files.workouts[i].cycle_id # None =>
           \E c \in DOMAIN files.cycles :
              /\ files.cycles[c].cycle_id = files.workouts[i].cycle_id
              /\ (i - 1) \in Range(files.cycles[c].workouts)








====
